---- MODULE Spec2Model ----
(***************************************************************************)
(* Rotary cutter simulation core: parameter validation, the simulation     *)
(* engine (SimulationEngine.run_simulation), the legacy entry points of    *)
(* main_model.py, the orc_bridge wrapper, PerformanceAnalyzer.analyze and  *)
(* the batch operations.                                                   *)
(*                                                                         *)
(* Numbers are fixed-point integers.  Units:                               *)
(*   R, L            centimetres            (0.01 m)                       *)
(*   w               decimetres             (0.1 m)                        *)
(*   m_c, mass       0.1 kg                                                *)
(*   I_plate         1e-5 kg m^2  (= 0.1 kg * cm^2)                        *)
(*   tau_input and strategy values   0.1 N m                               *)
(*   b, c_drag       0.01                                                  *)
(*   rho_veg         0.1 kg/m^2                                            *)
(*   k_grass         1 N s/m                                               *)
(*   v_avance        0.1 m/s                                               *)
(*   times           seconds, or a numerator over (n_points - 1)           *)
(*   dt              ticks of 1e-7 s                                       *)
(*   torques of the physics 0.01 N m, moments of inertia there 0.01 kg m^2 *)
(***************************************************************************)
EXTENDS Integers, Sequences, FiniteSets, TLC

VARIABLES
    call,        \* the call in progress: its name and its arguments
    pc,          \* the position of the call in the code of its function
    parameters,  \* the parameter dictionary the call works with
    sol,         \* what solve_ivp returned to the call in progress
    solverCalls, \* how often the call in progress has invoked solve_ivp
    ret,         \* what the call returned or raised
    analysis,    \* what PerformanceAnalyzer.analyze did with the last result
    index,       \* a batch operation: the position in its list it works on
    results,     \* a batch operation: the output it has built so far
    strategyCalls \* a call of the physics: the times it called tau_grass_func at

vars ==
    <<call, pc, parameters, sol, solverCalls, ret, analysis, index, results,
      strategyCalls>>

-----------------------------------------------------------------------------
(* Python values.  k is the dynamic type: "int", "float" (finite, value v), *)
(* "nan", "inf", "ninf" (floats without a finite value), "str" (any value   *)
(* that is no int or float), "none" (None), "missing" (the key is absent),  *)
(* "func" (a callable) and "raise" (a call that raised, v = 1 when the      *)
(* exception carries a text and 0 when str(e) is empty).                    *)

Int_(n) == [k |-> "int", v |-> n]
Float(n) == [k |-> "float", v |-> n]
NaN == [k |-> "nan", v |-> 0]
Inf == [k |-> "inf", v |-> 0]
NInf == [k |-> "ninf", v |-> 0]
Str == [k |-> "str", v |-> 0]
None == [k |-> "none", v |-> 0]
Missing == [k |-> "missing", v |-> 0]
Raise(m) == [k |-> "raise", v |-> m]

\* isinstance(x, (int, float))
IsNumber(x) == x.k \in {"int", "float", "nan", "inf", "ninf"}
\* isinstance(x, int)
IsInt(x) == x.k = "int"
IsFinite(x) == x.k \in {"int", "float"}

\* Python's x < c, x <= c, x > c for a number x and a finite c; every
\* comparison with NaN is False.
Lt(x, c) == (IsFinite(x) /\ x.v < c) \/ x.k = "ninf"
Le(x, c) == (IsFinite(x) /\ x.v <= c) \/ x.k = "ninf"
Gt(x, c) == (IsFinite(x) /\ x.v > c) \/ x.k = "inf"

-----------------------------------------------------------------------------
(* A resistive-torque strategy is a callable of the time.  The model keeps  *)
(* its outcome at the times the validators sample (0, 1, 5 and 10 s) and    *)
(* at any other time ("other"): a number, a non-number, or an exception.    *)

Slots == {"t0", "t1", "t5", "t10", "other"}
Func(at) == [k |-> "func", v |-> 0, at |-> at]
\* A call that passes 0 whatever the time is.
CallStrategy_AtZero(f, slot) == f.at["t0"]

CallStrategy(f, slot) == f.at[slot]

-----------------------------------------------------------------------------
(* ParameterLimits, src/orc/core/validation.py, in the units of the model.  *)

MIN_RADIUS == 1
MAX_RADIUS == 500
MAX_LENGTH_RATIO == 2
MIN_MASS == 1
MAX_MASS == 10000
\* MIN_INERTIA is 1e-6 kg m^2: one tenth of the unit of I_plate, so the
\* comparison is made on 10 * I_plate.
MIN_INERTIA == 1
MAX_INERTIA == 100000000
MIN_TORQUE == 1
MAX_TORQUE == 100000
MAX_LINEAR_VELOCITY == 200
MAX_FRICTION == 10000
MAX_DRAG == 1000
MAX_DENSITY == 100
MAX_RESISTANCE == 1000
MIN_BLADES == 1
MAX_BLADES == 12
MIN_WIDTH == 1
MAX_WIDTH == 100

RequiredParams ==
    {"I_plate", "m_c", "R", "L", "tau_input", "b", "c_drag",
     "rho_veg", "k_grass", "v_avance"}
Fields == RequiredParams \cup {"n_blades", "w", "tau_grass_func"}

Has(p, f) == p[f].k # "missing"

-----------------------------------------------------------------------------
(* ParameterValidator.validate_parameters.  Each part is TRUE when the      *)
(* method of that name raises ValidationError.                              *)

CheckRequiredParameters(p) == \E f \in RequiredParams : ~Has(p, f)

\* _validate_geometric_parameters without the comparison of L with the radius.
ValidateGeometricParameters_NoRatio(p) ==
    \/ ~IsNumber(p["R"]) \/ Le(p["R"], 0)
    \/ Lt(p["R"], MIN_RADIUS) \/ Gt(p["R"], MAX_RADIUS)
    \/ ~IsNumber(p["L"]) \/ Lt(p["L"], 0)
    \/ /\ Has(p, "w")
       /\ \/ ~IsNumber(p["w"]) \/ Le(p["w"], 0)
          \/ Lt(p["w"], MIN_WIDTH) \/ Gt(p["w"], MAX_WIDTH)

ValidateGeometricParameters(p) ==
    \/ ~IsNumber(p["R"]) \/ Le(p["R"], 0)
    \/ Lt(p["R"], MIN_RADIUS) \/ Gt(p["R"], MAX_RADIUS)
    \/ ~IsNumber(p["L"]) \/ Lt(p["L"], 0)
    \/ Gt(p["L"], MAX_LENGTH_RATIO * p["R"].v)
    \/ /\ Has(p, "w")
       /\ \/ ~IsNumber(p["w"]) \/ Le(p["w"], 0)
          \/ Lt(p["w"], MIN_WIDTH) \/ Gt(p["w"], MAX_WIDTH)

ValidateMassParameters(p) ==
    \/ ~IsNumber(p["I_plate"]) \/ Le(p["I_plate"], 0)
    \/ (IsFinite(p["I_plate"]) /\ 10 * p["I_plate"].v < MIN_INERTIA)
    \/ Gt(p["I_plate"], MAX_INERTIA)
    \/ ~IsNumber(p["m_c"]) \/ Le(p["m_c"], 0)
    \/ Lt(p["m_c"], MIN_MASS) \/ Gt(p["m_c"], MAX_MASS)

ValidateTorqueParameters(p) ==
    \/ ~IsNumber(p["tau_input"]) \/ Le(p["tau_input"], 0)
    \/ Lt(p["tau_input"], MIN_TORQUE) \/ Gt(p["tau_input"], MAX_TORQUE)

ValidateResistanceParameters(p) ==
    \/ ~IsNumber(p["b"]) \/ Lt(p["b"], 0)
    \/ Gt(p["b"], MAX_FRICTION)
    \/ ~IsNumber(p["c_drag"]) \/ Lt(p["c_drag"], 0)
    \/ Gt(p["c_drag"], MAX_DRAG)

ValidateVegetationParameters(p) ==
    \/ ~IsNumber(p["rho_veg"]) \/ Lt(p["rho_veg"], 0)
    \/ Gt(p["rho_veg"], MAX_DENSITY)
    \/ ~IsNumber(p["k_grass"]) \/ Lt(p["k_grass"], 0)
    \/ Gt(p["k_grass"], MAX_RESISTANCE)
    \/ ~IsNumber(p["v_avance"]) \/ Lt(p["v_avance"], 0)
    \/ Gt(p["v_avance"], MAX_LINEAR_VELOCITY)

ValidateBladeParameters(p) ==
    /\ Has(p, "n_blades")
    /\ \/ ~IsInt(p["n_blades"]) \/ Lt(p["n_blades"], MIN_BLADES)
       \/ Gt(p["n_blades"], MAX_BLADES)

\* The times _validate_torque_function samples.
OrcTestTimes == {"t0", "t1", "t5", "t10"}

\* One sampled value makes _validate_torque_function raise: the call raised,
\* or the value is no number, is negative, or is above MAX_TORQUE.
OrcSampleRejected(r) ==
    r.k = "raise" \/ ~IsNumber(r) \/ Lt(r, 0) \/ Gt(r, MAX_TORQUE)

ValidateTorqueFunction(f) ==
    \/ f.k # "func"
    \/ \E s \in OrcTestTimes : OrcSampleRejected(CallStrategy(f, s))

HasStrategy(p) == Has(p, "tau_grass_func") /\ p["tau_grass_func"].k # "none"

\* "ok", or the exception validate_parameters raises.  The consistency check
\* (_validate_parameter_consistency) only logs a warning.
ValidateParameters(p) ==
    IF \/ CheckRequiredParameters(p)
       \/ ValidateGeometricParameters(p)
       \/ ValidateMassParameters(p)
       \/ ValidateTorqueParameters(p)
       \/ ValidateResistanceParameters(p)
       \/ ValidateVegetationParameters(p)
       \/ ValidateBladeParameters(p)
       \/ (HasStrategy(p) /\ ValidateTorqueFunction(p["tau_grass_func"]))
    THEN "ValidationError"
    ELSE "ok"

-----------------------------------------------------------------------------
(* main_model.validate_params.                                             *)

LegacyMaxBlades == 12
LegacyMaxWidth == 100
LegacyLengthRatio == 2
LegacyInertiaFactor == 10
LegacyMaxAdvance == 200
LegacyMaxTorque == 100000
LegacyMaxStrategyTorque == 10000

\* The times validate_params samples.
LegacyTestTimes == {"t0", "t1", "t5"}

\* a > k * m * r^2 for positive integers, computed without forming the whole
\* product (k * m * r^2 can exceed the integer range of the checker).
ExceedsProduct(a, k, m, r) ==
    LET q == a \div r
    IN  q > k * m * r \/ (q = k * m * r /\ a % r > 0)

LegacySampleRejected(r) ==
    r.k = "raise" \/ ~IsNumber(r) \/ Lt(r, 0) \/ Gt(r, LegacyMaxStrategyTorque)

\* TRUE when the loop over required_positive collects an invalid parameter.
LegacyNotPositive(p) ==
    \E f \in RequiredParams : ~IsNumber(p[f]) \/ Le(p[f], 0)

LegacyBladesRejected(p) ==
    /\ Has(p, "n_blades")
    /\ \/ ~IsInt(p["n_blades"]) \/ Lt(p["n_blades"], 1)
       \/ Gt(p["n_blades"], LegacyMaxBlades)

LegacyWidthRejected(p) ==
    /\ Has(p, "w")
    /\ ~IsNumber(p["w"]) \/ Le(p["w"], 0) \/ Gt(p["w"], LegacyMaxWidth)

LegacyCoherenceRejected(p) ==
    \/ Gt(p["L"], LegacyLengthRatio * p["R"].v)
    \/ ExceedsProduct(p["I_plate"].v, LegacyInertiaFactor, p["m_c"].v, p["R"].v)
    \/ Gt(p["v_avance"], LegacyMaxAdvance)
    \/ Gt(p["tau_input"], LegacyMaxTorque)

LegacyStrategyRejected(p) ==
    /\ HasStrategy(p)
    /\ \/ p["tau_grass_func"].k # "func"
       \/ \E s \in LegacyTestTimes :
              LegacySampleRejected(CallStrategy(p["tau_grass_func"], s))

\* "ok", or the exception validate_params raises.
ValidateParams(p) ==
    IF \E f \in RequiredParams : ~Has(p, f) THEN "KeyError"
    ELSE IF \/ LegacyNotPositive(p)
            \/ LegacyBladesRejected(p)
            \/ LegacyWidthRejected(p)
            \/ LegacyCoherenceRejected(p)
            \/ LegacyStrategyRejected(p)
         THEN "ValueError"
         ELSE "ok"

-----------------------------------------------------------------------------
(* Parameter dictionaries.  DefaultParams is what the default               *)
(* RotaryCutterConfig converts to; the other dictionaries differ from it in *)
(* at most MaxDeviations entries.                                           *)

MaxDeviations == 2

ConstantStrategy == Func([s \in Slots |-> Float(100)])

DefaultParams ==
    [f \in Fields |->
        CASE f = "I_plate" -> Float(108000)
          [] f = "m_c" -> Float(45)
          [] f = "R" -> Float(60)
          [] f = "L" -> Float(18)
          [] f = "tau_input" -> Float(2000)
          [] f = "b" -> Float(10)
          [] f = "c_drag" -> Float(1)
          [] f = "rho_veg" -> Float(10)
          [] f = "k_grass" -> Float(15)
          [] f = "v_avance" -> Float(30)
          [] f = "n_blades" -> Int_(2)
          [] f = "w" -> Float(18)
          [] f = "tau_grass_func" -> None]

\* What a strategy can produce at one time.
StrategyOutcomes ==
    {Float(0), Float(-1), Float(10001), Float(100001), NaN, Inf, NInf, Str,
     Raise(0), Raise(1)}

Strategies ==
    {ConstantStrategy} \cup
    {Func([ConstantStrategy.at EXCEPT ![s] = r]) :
        s \in Slots, r \in StrategyOutcomes}

\* The values tried for one entry.
Candidates(f) ==
    CASE f = "R" -> {Missing, Str, Float(-1), Float(0), Int_(1), Float(501)}
      [] f = "L" -> {Missing, Str, Float(-1), Float(0), Float(120), Float(121)}
      [] f = "I_plate" -> {Missing, Str, Float(-1), Float(0), Float(100000001)}
      [] f = "m_c" -> {Missing, Str, Float(-1), Float(0), Float(1), Float(10001)}
      [] f = "tau_input" -> {Missing, Str, Float(-1), Float(0), Float(100001)}
      [] f = "b" -> {Missing, Str, Float(-1), Float(0), Float(10001)}
      [] f = "c_drag" -> {Missing, Str, Float(-1), Float(0), Float(1001)}
      [] f = "rho_veg" -> {Missing, Str, Float(-1), Float(0), Float(101)}
      [] f = "k_grass" -> {Missing, Str, Float(-1), Float(0), Float(1001)}
      [] f = "v_avance" -> {Missing, Str, Float(-1), Float(0), Float(201)}
      [] f = "n_blades" ->
            {Missing, Str, Float(2), Int_(0), Int_(1), Int_(12), Int_(13)}
      [] f = "w" -> {Missing, Str, Float(0), Float(101)}
      [] f = "tau_grass_func" -> {Missing, Float(5)} \cup Strategies

RECURSIVE DictsWithin(_)
DictsWithin(n) ==
    IF n = 0 THEN {DefaultParams}
    ELSE LET D == DictsWithin(n - 1)
         IN  D \cup {[d EXCEPT ![f] = c] : d \in D, <<f, c>> \in
                        UNION {{<<g, x>> : x \in Candidates(g)} : g \in Fields}}

ParamDicts == DictsWithin(MaxDeviations)

-----------------------------------------------------------------------------
(* Values of the variables a specification does not use.                    *)

NoCall == [api |-> "none"]
NoSol == [status |-> "none"]
NoRet == [api |-> "none", raised |-> "none"]
NoResults == [name \in {} |-> 0]
NoAnalysis == [status |-> "none"]

-----------------------------------------------------------------------------
(* SpecValidation: one parameter dictionary is handed to one of the two     *)
(* validators.                                                              *)

InitValidation ==
    /\ call = NoCall
    /\ pc = "ready"
    /\ parameters \in ParamDicts
    /\ sol = NoSol
    /\ solverCalls = 0
    /\ ret = NoRet
    /\ analysis = NoAnalysis
    /\ index = 0
    /\ results = NoResults
    /\ strategyCalls = <<>>

\* ParameterValidator().validate_parameters(parameters)
CallValidateParameters ==
    /\ pc = "ready"
    /\ pc' = "done"
    /\ call' = [api |-> "validate_parameters"]
    /\ ret' = [api |-> "validate_parameters",
               raised |-> ValidateParameters(parameters)]
    /\ UNCHANGED <<parameters, sol, solverCalls, analysis>>
    /\ UNCHANGED <<index, results>>
    /\ UNCHANGED strategyCalls

\* main_model.validate_params(parameters)
CallValidateParams ==
    /\ pc = "ready"
    /\ pc' = "done"
    /\ call' = [api |-> "validate_params"]
    /\ ret' = [api |-> "validate_params",
               raised |-> ValidateParams(parameters)]
    /\ UNCHANGED <<parameters, sol, solverCalls, analysis>>
    /\ UNCHANGED <<index, results>>
    /\ UNCHANGED strategyCalls

NextValidation == CallValidateParameters \/ CallValidateParams

SpecValidation == InitValidation /\ [][NextValidation]_vars

-----------------------------------------------------------------------------
(* SimulationConfig.  rtol and atol are in units of 1e-10; n_points, t_start *)
(* and t_end are whole numbers; max_step is None or a number.  The default  *)
(* of the model has 11 points over [0, 10] (the code's default has 1000).   *)

MaxConfigDeviations == 2

DefaultConfig ==
    [t_start |-> 0, t_end |-> 10, n_points |-> 11, rtol |-> 100, atol |-> 1,
     max_step |-> None, initial_angle |-> 0, initial_angular_velocity |-> 0]

ConfigDeviations ==
    {<<"t_start", 10>>, <<"t_start", 2>>, <<"t_end", 0>>, <<"t_end", -1>>,
     <<"t_end", 5>>, <<"n_points", 9>>, <<"n_points", 10>>, <<"n_points", 0>>,
     <<"rtol", 0>>, <<"rtol", -1>>, <<"atol", 0>>, <<"atol", -1>>,
     <<"max_step", Float(-1)>>, <<"max_step", Float(0)>>,
     <<"max_step", Float(1)>>}

RECURSIVE ConfigsWithin(_)
ConfigsWithin(n) ==
    IF n = 0 THEN {DefaultConfig}
    ELSE LET C == ConfigsWithin(n - 1)
         IN  C \cup {[c EXCEPT ![d[1]] = d[2]] : c \in C, d \in ConfigDeviations}

Configs == ConfigsWithin(MaxConfigDeviations)

\* _validate_config without the check of max_step.
ValidateConfig_NoMaxStep(config) ==
    IF \/ config.t_end <= config.t_start
       \/ config.n_points < 10
       \/ config.rtol <= 0 \/ config.atol <= 0
    THEN "ValidationError"
    ELSE "ok"

\* SimulationEngine._validate_config: "ok" or the exception it raises.
ValidateConfig(config) ==
    IF \/ config.t_end <= config.t_start
       \/ config.n_points < 10
       \/ config.rtol <= 0 \/ config.atol <= 0
       \/ (config.max_step.k # "none" /\ Le(config.max_step, 0))
    THEN "ValidationError"
    ELSE "ok"

\* A grid that starts at 0 whatever t_start is.
Linspace_FromZero(t_start, t_end, n) ==
    [i \in 1..n |-> (i - 1) * (t_end - t_start)]

\* np.linspace(t_start, t_end, n_points): sample i of n is
\* t_start + (i - 1) * (t_end - t_start) / (n - 1).  The model keeps the
\* numerators over the common denominator n - 1.
Linspace(t_start, t_end, n) ==
    [i \in 1..n |-> t_start * (n - 1) + (i - 1) * (t_end - t_start)]

\* The slot of a strategy that the time num / den falls in.
SlotOf(num, den) ==
    CASE num = 0 -> "t0"
      [] num = den -> "t1"
      [] num = 5 * den -> "t5"
      [] num = 10 * den -> "t10"
      [] OTHER -> "other"

-----------------------------------------------------------------------------
(* RotaryCutterPhysics.  Torques are in 1e-2 N m, omega in rad/s.           *)

\* A sign that forgets the direction.
Sign_Unsigned(x) == IF x = 0 THEN 0 ELSE 1

\* np.sign(x)
Sign(x) == IF x > 0 THEN 1 ELSE IF x < 0 THEN -1 ELSE 0

\* The inertia with a default of one blade.
TotalMomentOfInertia_OneBlade(p) ==
    LET n_blades == IF Has(p, "n_blades") THEN p["n_blades"].v ELSE 1
    IN  p["I_plate"].v
          + n_blades * p["m_c"].v * (p["R"].v + p["L"].v) * (p["R"].v + p["L"].v)

\* calculate_total_moment_of_inertia, in 1e-5 kg m^2.
TotalMomentOfInertia(p) ==
    LET n_blades == IF Has(p, "n_blades") THEN p["n_blades"].v ELSE 2
    IN  p["I_plate"].v
          + n_blades * p["m_c"].v * (p["R"].v + p["L"].v) * (p["R"].v + p["L"].v)

\* The same in 1e-2 kg m^2, the unit of the trajectories of the model.
TrajectoryInertia(p) == TotalMomentOfInertia(p) \div 1000

\* The vegetation torque calculate_torque_components obtains at a time: what
\* the strategy returns (or raises), or the constant model.
GrassTorque(slot, p) ==
    IF HasStrategy(p)
    THEN LET r == CallStrategy(p["tau_grass_func"], slot)
         IN  IF IsFinite(r) THEN Float(10 * r.v) ELSE r
    ELSE Float((p["k_grass"].v * p["rho_veg"].v * p["v_avance"].v * p["R"].v)
                 \div 100)

\* calculate_torque_components(t, omega, params)['net'] when the vegetation
\* torque is the number g.
NetTorque(g, omega, p) ==
    10 * p["tau_input"].v
      - p["b"].v * omega
      - p["c_drag"].v * omega * omega * Sign(omega)
      - g

\* calculate_torque_components raises at this time: the strategy raised, or
\* returned a value the subtraction rejects (TypeError).
TorqueRaises(slot, p) == GrassTorque(slot, p).k \in {"raise", "str"}

\* str(e) of that exception.
TorqueErrorText(slot, p) ==
    LET g == GrassTorque(slot, p)
    IN  IF g.k = "raise" /\ g.v = 0 THEN "" ELSE "error evaluating torque"

-----------------------------------------------------------------------------
(* scipy.integrate.solve_ivp as the engine uses it.  The library is not     *)
(* part of the repository: the model keeps its contract.  It evaluates the  *)
(* right-hand side at t_start, at t_end and at times of its own choice      *)
(* ("other"); an                                                            *)
(* exception of the right-hand side propagates; it either fails            *)
(* (success = False with a message) or returns one sample per entry of      *)
(* t_eval.  Whether the tolerances can be met is the input `fate`.  The     *)
(* samples are those of a fixed-step scheme on the output grid.             *)

Fates == {"converges", "fails"}

RECURSIVE SolutionFrom(_, _, _, _, _, _, _)
\* The samples i..n of omega (y1) and of the angle (y0, a numerator over
\* n - 1), given sample i.
SolutionFrom(i, n, theta, omega, t, span, p) ==
    IF i = n THEN <<[theta |-> theta, omega |-> omega]>>
    ELSE LET g == GrassTorque(SlotOf(t[i], n - 1), p)
             net == NetTorque(IF IsFinite(g) THEN g.v ELSE 0, omega, p)
             I_total == TrajectoryInertia(p)
             omega2 == omega + (net * span) \div (I_total * (n - 1))
         IN  <<[theta |-> theta, omega |-> omega]>>
               \o SolutionFrom(i + 1, n, theta + omega * span, omega2, t, span, p)

SolveIvp(p, config, t_eval, fate) ==
    LET first == SlotOf(t_eval[1], config.n_points - 1)
        last == SlotOf(t_eval[config.n_points], config.n_points - 1)
        bad == {s \in {first, "other", last} : TorqueRaises(s, p)}
    IN  IF bad # {}
        THEN [status |-> "raised",
              message |-> TorqueErrorText(CHOOSE b \in bad : TRUE, p)]
        ELSE IF fate = "fails"
        THEN [status |-> "failed",
              message |-> "Required step size is less than spacing between numbers."]
        ELSE LET y == SolutionFrom(1, config.n_points,
                                   config.initial_angle * (config.n_points - 1),
                                   config.initial_angular_velocity,
                                   t_eval, config.t_end - config.t_start, p)
             IN  [status |-> "ok",
                  message |-> "The solver successfully reached the end of the integration interval.",
                  t |-> t_eval,
                  y0 |-> [i \in 1..Len(y) |-> y[i].theta],
                  y1 |-> [i \in 1..Len(y) |-> y[i].omega],
                  nfev |-> 6 * config.n_points + 2]

-----------------------------------------------------------------------------
(* SimulationEngine.run_simulation, after the two validations.              *)

\* The SimulationResult of the except branch.
FailedResult(message, p, config) ==
    [time |-> <<>>, angle |-> <<>>, angular_velocity |-> <<>>,
     torque |-> <<>>, power |-> <<>>, kinetic_energy |-> <<>>,
     success |-> FALSE, message |-> message, n_evaluations |-> 0,
     parameters |-> p, config |-> config]

\* The grid times at which _calculate_torque_time_series raises.
TorqueSeriesFailures(s, p) ==
    {i \in 1..Len(s.t) : TorqueRaises(SlotOf(s.t[i], Len(s.t) - 1), p)}

\* The SimulationResult built from a solution the solver reported successful.
\* kinetic_energy is in units of 0.5e-2 J, power in 1e-2 W.
SuccessResult(s, p, config) ==
    LET n == Len(s.t)
        torque == [i \in 1..n |->
                     NetTorque(GrassTorque(SlotOf(s.t[i], n - 1), p).v, s.y1[i], p)]
        I_total == TrajectoryInertia(p)
    IN  [time |-> s.t, angle |-> s.y0, angular_velocity |-> s.y1,
         torque |-> torque,
         power |-> [i \in 1..n |-> torque[i] * s.y1[i]],
         kinetic_energy |-> [i \in 1..n |-> I_total * s.y1[i] * s.y1[i]],
         success |-> TRUE, message |-> "Simulation completed successfully",
         n_evaluations |-> s.nfev, parameters |-> p, config |-> config]

\* The try block after solve_ivp has returned or raised, and its except
\* branch: the SimulationResult that run_simulation returns.
BuildResult(s, p, config) ==
    CASE s.status = "raised" -> FailedResult(s.message, p, config)
      [] s.status = "failed" ->
            FailedResult("Integration failed: Required step size is less than spacing between numbers.",
                         p, config)
      [] OTHER ->
            LET bad == TorqueSeriesFailures(s, p)
            IN  IF bad # {}
                THEN FailedResult(
                        TorqueErrorText(
                            SlotOf(s.t[CHOOSE i \in bad : \A j \in bad : i <= j],
                                   Len(s.t) - 1), p),
                        p, config)
                ELSE SuccessResult(s, p, config)

-----------------------------------------------------------------------------
(* PerformanceAnalyzer.analyze.                                             *)

\* _calculate_power_metrics raises ValueError: np.max of an empty array.
PowerMetricsRaise(power) == Len(power) = 0

\* What analyze(result) does: whether it logged the warning, and "ok" or the
\* exception it raises.
Analyze(result) ==
    [status |-> "called",
     warned |-> ~result.success,
     raised |-> IF PowerMetricsRaise(result.power) THEN "ValueError" ELSE "ok"]

-----------------------------------------------------------------------------
(* The runs of Spec: parameter dictionaries for SimulationEngine and for    *)
(* main_model.simulate_advanced_configuration.  The strategies of a run     *)
(* return finite numbers or raise.                                          *)

RunStrategies ==
    {ConstantStrategy} \cup
    {Func([ConstantStrategy.at EXCEPT ![s] = r]) :
        s \in {"t0", "t10", "other"},
        r \in {Float(0), Float(-1), Str, Raise(0), Raise(1)}}

RunParams ==
    {DefaultParams,
     [DefaultParams EXCEPT !["b"] = Float(-1)],
     [DefaultParams EXCEPT !["b"] = Float(0)],
     [DefaultParams EXCEPT !["R"] = Missing],
     [DefaultParams EXCEPT !["L"] = Float(121)],
     [DefaultParams EXCEPT !["k_grass"] = Float(1000)]}
    \cup {[DefaultParams EXCEPT !["tau_grass_func"] = f] : f \in RunStrategies}

-----------------------------------------------------------------------------
(* Spec: calls of SimulationEngine.run_simulation and of                    *)
(* main_model.simulate_advanced_configuration, step by step, and            *)
(* PerformanceAnalyzer.analyze on what the engine returned.                 *)

Init ==
    /\ call = NoCall
    /\ pc = "idle"
    /\ parameters = DefaultParams
    /\ sol = NoSol
    /\ solverCalls = 0
    /\ ret = NoRet
    /\ analysis = NoAnalysis
    /\ index = 0
    /\ results = NoResults
    /\ strategyCalls = <<>>

Finished == pc = "idle"

\* engine.run_simulation(parameters, config) is called.
EngineCall ==
    /\ Finished
    /\ \E p \in RunParams, c \in Configs, f \in Fates :
          /\ call' = [api |-> "engine.run_simulation", parameters |-> p,
                      config |-> c, fate |-> f]
          /\ parameters' = p
    /\ pc' = "validate_parameters"
    /\ sol' = NoSol
    /\ solverCalls' = 0
    /\ ret' = NoRet
    /\ analysis' = NoAnalysis
    /\ UNCHANGED <<index, results>>
    /\ UNCHANGED strategyCalls

Raised(e) == [api |-> call.api, raised |-> e]

\* run_simulation without the call of the validator.
EngineValidateParameters_Skipped ==
    /\ pc = "validate_parameters"
    /\ pc' = "validate_config"
    /\ UNCHANGED <<call, parameters, sol, solverCalls, ret, analysis>>
    /\ UNCHANGED <<index, results>>
    /\ UNCHANGED strategyCalls

\* self.validator.validate_parameters(parameters)
EngineValidateParameters ==
    /\ pc = "validate_parameters"
    /\ IF ValidateParameters(parameters) = "ok"
       THEN pc' = "validate_config" /\ ret' = ret
       ELSE pc' = "raised" /\ ret' = Raised(ValidateParameters(parameters))
    /\ UNCHANGED <<call, parameters, sol, solverCalls, analysis>>
    /\ UNCHANGED <<index, results>>
    /\ UNCHANGED strategyCalls

\* self._validate_config(config)
EngineValidateConfig ==
    /\ pc = "validate_config"
    /\ IF ValidateConfig(call.config) = "ok"
       THEN pc' = "integrate" /\ ret' = ret
       ELSE pc' = "raised" /\ ret' = Raised(ValidateConfig(call.config))
    /\ UNCHANGED <<call, parameters, sol, solverCalls, analysis>>
    /\ UNCHANGED <<index, results>>
    /\ UNCHANGED strategyCalls

\* t_eval = np.linspace(...); sol = solve_ivp(...)
EngineIntegrate ==
    /\ pc = "integrate"
    /\ sol' = SolveIvp(parameters, call.config,
                       Linspace(call.config.t_start, call.config.t_end,
                                call.config.n_points),
                       call.fate)
    /\ solverCalls' = solverCalls + 1
    /\ pc' = "postprocess"
    /\ UNCHANGED <<call, parameters, ret, analysis>>
    /\ UNCHANGED <<index, results>>
    /\ UNCHANGED strategyCalls

\* The rest of the try block and the except branch.
EngineReturn ==
    /\ pc = "postprocess"
    /\ ret' = [api |-> call.api, raised |-> "ok",
               result |-> BuildResult(sol, parameters, call.config)]
    /\ pc' = "returned"
    /\ UNCHANGED <<call, parameters, sol, solverCalls, analysis>>
    /\ UNCHANGED <<index, results>>
    /\ UNCHANGED strategyCalls

\* PerformanceAnalyzer().analyze(result) on the result the engine returned.
CallAnalyze ==
    /\ pc = "returned"
    /\ call.api = "engine.run_simulation"
    /\ analysis = NoAnalysis
    /\ analysis' = Analyze(ret.result)
    /\ UNCHANGED <<call, pc, parameters, sol, solverCalls, ret>>
    /\ UNCHANGED <<index, results>>
    /\ UNCHANGED strategyCalls

-----------------------------------------------------------------------------
(* main_model.simulate_advanced_configuration(params, t_max, t_eval, y0),   *)
(* called with t_eval = np.linspace(0, t_max, n).                           *)

LegacyMaxInitialAngle == 100
LegacyMaxInitialOmega == 1000

NoY0 == [k |-> "none"]
Y0(theta0, omega0) == [k |-> "list", theta0 |-> theta0, omega0 |-> omega0]

Y0s ==
    {NoY0, [k |-> "str"], Y0(Float(0), Float(0)), Y0(Float(0), Float(5)),
     Y0(Str, Float(0)), Y0(Float(101), Float(0)), Y0(Float(0), Float(-1001))}

Abs(x) == IF x < 0 THEN -x ELSE x

\* The checks of the initial conditions: "ok" or the exception raised.
CheckY0(y0) ==
    IF y0.k = "none" THEN "ok"
    ELSE IF y0.k # "list" THEN "ValueError"
    ELSE IF ~IsNumber(y0.theta0) \/ ~IsNumber(y0.omega0) THEN "ValueError"
    ELSE IF Abs(y0.theta0.v) > LegacyMaxInitialAngle THEN "ValueError"
    ELSE IF Abs(y0.omega0.v) > LegacyMaxInitialOmega THEN "ValueError"
    ELSE "ok"

\* The arguments of solve_ivp, as a SimulationConfig.
LegacyConfig(t_max, n, y0) ==
    [t_start |-> 0, t_end |-> t_max, n_points |-> n, rtol |-> 100, atol |-> 1,
     max_step |-> None,
     initial_angle |-> IF y0.k = "list" THEN y0.theta0.v ELSE 0,
     initial_angular_velocity |-> IF y0.k = "list" THEN y0.omega0.v ELSE 0]

\* What follows solve_ivp: "ok" with the result dictionary, or the exception
\* that leaves simulate_advanced_configuration.
LegacyOutcome(s, p) ==
    CASE s.status = "raised" -> [raised |-> "Exception", message |-> s.message]
      [] s.status = "failed" ->
            [raised |-> "RuntimeError", message |-> "La integracion fallo"]
      [] OTHER ->
            IF TorqueSeriesFailures(s, p) # {}
            THEN [raised |-> "Exception", message |-> "error evaluating torque"]
            ELSE LET r == SuccessResult(s, p, NoCall)
                 IN  [raised |-> "ok",
                      result |-> [time |-> r.time, theta |-> r.angle,
                                  omega |-> r.angular_velocity,
                                  torque |-> r.torque, power |-> r.power,
                                  kinetic_energy |-> r.kinetic_energy,
                                  moment_of_inertia |-> TrajectoryInertia(p),
                                  statistics |->
                                      [integration_points |-> Len(r.time),
                                       success |-> TRUE]]]

LegacyCall ==
    /\ Finished
    /\ \E p \in RunParams, t_max \in {5, 10}, n \in {10, 11}, y0 \in Y0s,
          f \in Fates :
          /\ call' = [api |-> "simulate_advanced_configuration",
                      parameters |-> p, t_max |-> t_max, n |-> n, y0 |-> y0,
                      fate |-> f]
          /\ parameters' = p
    /\ pc' = "legacy_validate"
    /\ sol' = NoSol
    /\ solverCalls' = 0
    /\ ret' = NoRet
    /\ analysis' = NoAnalysis
    /\ UNCHANGED <<index, results>>
    /\ UNCHANGED strategyCalls

\* validate_params(params)
LegacyValidate ==
    /\ pc = "legacy_validate"
    /\ IF ValidateParams(parameters) = "ok"
       THEN pc' = "legacy_y0" /\ ret' = ret
       ELSE pc' = "raised" /\ ret' = Raised(ValidateParams(parameters))
    /\ UNCHANGED <<call, parameters, sol, solverCalls, analysis>>
    /\ UNCHANGED <<index, results>>
    /\ UNCHANGED strategyCalls

LegacyCheckY0 ==
    /\ pc = "legacy_y0"
    /\ IF CheckY0(call.y0) = "ok"
       THEN pc' = "legacy_integrate" /\ ret' = ret
       ELSE pc' = "raised" /\ ret' = Raised(CheckY0(call.y0))
    /\ UNCHANGED <<call, parameters, sol, solverCalls, analysis>>
    /\ UNCHANGED <<index, results>>
    /\ UNCHANGED strategyCalls

LegacyIntegrate ==
    /\ pc = "legacy_integrate"
    /\ sol' = SolveIvp(parameters, LegacyConfig(call.t_max, call.n, call.y0),
                       Linspace(0, call.t_max, call.n), call.fate)
    /\ solverCalls' = solverCalls + 1
    /\ pc' = "legacy_post"
    /\ UNCHANGED <<call, parameters, ret, analysis>>
    /\ UNCHANGED <<index, results>>
    /\ UNCHANGED strategyCalls

LegacyReturn ==
    /\ pc = "legacy_post"
    /\ LET o == LegacyOutcome(sol, parameters)
       IN  IF o.raised = "ok"
           THEN pc' = "returned"
                /\ ret' = [api |-> call.api, raised |-> "ok", result |-> o.result]
           ELSE pc' = "raised" /\ ret' = Raised(o.raised)
    /\ UNCHANGED <<call, parameters, sol, solverCalls, analysis>>
    /\ UNCHANGED <<index, results>>
    /\ UNCHANGED strategyCalls

Next ==
    \/ EngineCall
    \/ EngineValidateParameters
    \/ EngineValidateConfig
    \/ EngineIntegrate
    \/ EngineReturn
    \/ CallAnalyze
    \/ LegacyCall
    \/ LegacyValidate
    \/ LegacyCheckY0
    \/ LegacyIntegrate
    \/ LegacyReturn

Spec == Init /\ [][Next]_vars

-----------------------------------------------------------------------------
(* main_model.run_simulation and the wrapper orc_bridge.run_simulation.     *)
(* mass, radius, omega, T_end are numbers in the units above; dt is in      *)
(* ticks of 1e-7 s.                                                         *)

TicksPerSecond == 10000000
LegacyMaxMass == 10000
LegacyMaxRadius == 500
LegacyMaxOmega == 1000
LegacyMaxTEnd == 3600
LegacyMinDt == 10
LegacyDefaultOmega == 10

\* simulate_advanced_configuration as one function: the exception it
\* raises, or "ok" and the dictionary it returns; sol is what solve_ivp
\* returned when it was called.
SimulateAdvancedConfiguration(p, t_max, n, y0, fate) ==
    IF ValidateParams(p) # "ok"
    THEN [raised |-> ValidateParams(p), sol |-> NoSol]
    ELSE IF CheckY0(y0) # "ok"
    THEN [raised |-> CheckY0(y0), sol |-> NoSol]
    ELSE LET s == SolveIvp(p, LegacyConfig(t_max, n, y0), Linspace(0, t_max, n), fate)
             o == LegacyOutcome(s, p)
         IN  IF o.raised = "ok"
             THEN [raised |-> "ok", result |-> o.result, sol |-> s]
             ELSE [raised |-> o.raised, sol |-> s]

\* validate_simulation_params: "ok" or the exception it raises.
ValidateSimulationParams(mass, radius, omega, T_end, dt) ==
    IF ~IsNumber(mass) \/ Le(mass, 0) \/ Gt(mass, LegacyMaxMass) THEN "ValueError"
    ELSE IF ~IsNumber(radius) \/ Le(radius, 0) \/ Gt(radius, LegacyMaxRadius)
    THEN "ValueError"
    ELSE IF omega # None /\ (~IsNumber(omega) \/ Le(omega, 0) \/ Gt(omega, LegacyMaxOmega))
    THEN "ValueError"
    ELSE IF ~IsNumber(T_end) \/ Le(T_end, 0) \/ Gt(T_end, LegacyMaxTEnd)
    THEN "ValueError"
    ELSE IF ~IsNumber(dt) \/ Le(dt, 0) THEN "ValueError"
    ELSE IF 10 * dt.v > T_end.v * TicksPerSecond THEN "ValueError"
    ELSE IF Lt(dt, LegacyMinDt) THEN "ValueError"
    ELSE "ok"

\* Default parameters without the motor torque.
DefaultParamsFor_NoTorque(mass, radius, tau_input) ==
    [f \in Fields |->
        CASE f = "I_plate" -> Float(((4 * mass * radius) \div 10) * radius)
          [] f = "m_c" -> Float((3 * mass) \div 10)
          [] f = "R" -> Float(radius)
          [] f = "L" -> Float((3 * radius) \div 10)
          [] f = "n_blades" -> Int_(2)
          [] f = "tau_input" -> Missing
          [] f = "b" -> Float(10)
          [] f = "c_drag" -> Float(1)
          [] f = "rho_veg" -> Float(5)
          [] f = "k_grass" -> Float(10)
          [] f = "v_avance" -> Float(20)
          [] f = "w" -> Float(18)
          [] OTHER -> Missing]

\* The dictionary main_model.create_default_params builds, before it
\* validates it.
DefaultParamsFor(mass, radius, tau_input) ==
    [f \in Fields |->
        CASE f = "I_plate" -> Float(((4 * mass * radius) \div 10) * radius)
          [] f = "m_c" -> Float((3 * mass) \div 10)
          [] f = "R" -> Float(radius)
          [] f = "L" -> Float((3 * radius) \div 10)
          [] f = "n_blades" -> Int_(2)
          [] f = "tau_input" -> Float(tau_input)
          [] f = "b" -> Float(10)
          [] f = "c_drag" -> Float(1)
          [] f = "rho_veg" -> Float(5)
          [] f = "k_grass" -> Float(10)
          [] f = "v_avance" -> Float(20)
          [] f = "w" -> Float(18)
          [] OTHER -> Missing]

\* The dictionary orc_bridge.create_default_params(mass, radius) returns.
BridgeDefaultParamsFor(mass, radius) ==
    [DefaultParamsFor(mass, radius, 1000) EXCEPT
        !["m_c"] = Float(mass \div 10),
        !["rho_veg"] = Float(10),
        !["k_grass"] = Float(15),
        !["v_avance"] = Float(30)]

\* The parameters run_simulation passes on: "ok" and the dictionary, or the
\* ValueError of create_default_params.
RunParameters(a) ==
    IF a.advanced_params = None
    THEN LET omega == IF a.omega = None THEN LegacyDefaultOmega ELSE a.omega.v
             p == DefaultParamsFor(a.mass.v, a.radius.v,
                                   (a.mass.v * a.radius.v * omega) \div 10)
         IN  IF ValidateParams(p) = "ok"
             THEN [raised |-> "ok", params |-> p]
             ELSE [raised |-> "ValueError"]
    ELSE LET q == a.advanced_params
             filled == [q EXCEPT
                 !["I_plate"] = IF Has(q, "I_plate") THEN q["I_plate"]
                                ELSE Float(((4 * a.mass.v * a.radius.v) \div 10) * a.radius.v),
                 !["R"] = IF Has(q, "R") THEN q["R"] ELSE a.radius]
         IN  [raised |-> "ok", params |-> filled]

\* int(T_end / dt)
StepCount(T_end, dt) == (T_end.v * TicksPerSecond) \div dt.v

\* What the except branch of orc_bridge.run_simulation does: the exception
\* that leaves it, or "ok" and the dictionary it returns.
BridgeFallbackOutcome(a, fate) ==
    IF a.advanced_params = None /\ (~IsNumber(a.mass) \/ ~IsNumber(a.radius))
    THEN [raised |-> "TypeError", sol |-> NoSol]
    ELSE IF ~IsNumber(a.T_end) \/ ~IsNumber(a.dt)
    THEN [raised |-> "TypeError", sol |-> NoSol]
    ELSE IF a.dt.v = 0 THEN [raised |-> "ZeroDivisionError", sol |-> NoSol]
    ELSE LET params == IF a.advanced_params = None
                       THEN BridgeDefaultParamsFor(a.mass.v, a.radius.v)
                       ELSE a.advanced_params
             n == StepCount(a.T_end, a.dt)
         IN  IF n <= 0
             THEN \* np.linspace rejects n < 0; with n = 0 no sample exists
                  \* and np.max of the empty omega raises
                  [raised |-> "ValueError", sol |-> NoSol]
             ELSE SimulateAdvancedConfiguration(params, a.T_end.v, n, a.y0, fate)

MaxArgDeviations == 2

DefaultArgs ==
    [mass |-> Float(100), radius |-> Float(50), omega |-> None,
     T_end |-> Float(1), dt |-> Float(1000000), advanced_params |-> None,
     y0 |-> NoY0]

ArgDeviations ==
    {<<"mass", Float(-10)>>, <<"mass", Float(10010)>>, <<"mass", Str>>,
     <<"radius", Float(0)>>, <<"radius", Float(501)>>,
     <<"omega", Float(10)>>, <<"omega", Float(-1)>>, <<"omega", Float(1001)>>,
     <<"T_end", Float(0)>>, <<"T_end", Float(-1)>>,
     <<"dt", Float(0)>>, <<"dt", Float(2000000)>>, <<"dt", Str>>,
     <<"advanced_params", DefaultParams>>,
     <<"advanced_params", [DefaultParams EXCEPT !["b"] = Float(-1)]>>,
     <<"advanced_params", [DefaultParams EXCEPT !["R"] = Missing]>>,
     <<"advanced_params",
       [DefaultParams EXCEPT !["tau_grass_func"] =
           Func([ConstantStrategy.at EXCEPT !["other"] = Raise(1)])]>>,
     <<"y0", Y0(Float(0), Float(5))>>, <<"y0", Y0(Float(101), Float(0))>>}

RECURSIVE ArgsWithin(_)
ArgsWithin(n) ==
    IF n = 0 THEN {DefaultArgs}
    ELSE LET A == ArgsWithin(n - 1)
         IN  A \cup {[a EXCEPT ![d[1]] = d[2]] : a \in A, d \in ArgDeviations}

Args == ArgsWithin(MaxArgDeviations)

RunApis == {"main_model.run_simulation", "orc_bridge.run_simulation"}

\* run_simulation(mass, radius, omega, T_end, dt, advanced_params, y0) is
\* called, directly or through the wrapper.
RunCall ==
    /\ pc = "idle"
    /\ \E api \in RunApis, a \in Args, f \in Fates, g \in Fates :
          call' = [api |-> api, args |-> a, fate |-> f, fallback_fate |-> g]
    /\ pc' = "validate_simulation_params"
    /\ UNCHANGED <<parameters, sol, solverCalls, ret, analysis>>
    /\ UNCHANGED <<index, results>>
    /\ UNCHANGED strategyCalls

\* An exception leaves main_model.run_simulation: it reaches the caller, or
\* the except branch of the wrapper.
Fail(e) ==
    IF call.api = "orc_bridge.run_simulation"
    THEN pc' = "fallback" /\ ret' = ret
    ELSE pc' = "raised" /\ ret' = Raised(e)

RunValidateBasic ==
    /\ pc = "validate_simulation_params"
    /\ LET a == call.args
           v == ValidateSimulationParams(a.mass, a.radius, a.omega, a.T_end, a.dt)
       IN  IF v = "ok" THEN pc' = "create_params" /\ ret' = ret ELSE Fail(v)
    /\ UNCHANGED <<call, parameters, sol, solverCalls, analysis>>
    /\ UNCHANGED <<index, results>>
    /\ UNCHANGED strategyCalls

RunCreateParams ==
    /\ pc = "create_params"
    /\ LET r == RunParameters(call.args)
       IN  IF r.raised = "ok"
           THEN parameters' = r.params /\ pc' = "simulate" /\ ret' = ret
           ELSE parameters' = parameters /\ Fail(r.raised)
    /\ UNCHANGED <<call, sol, solverCalls, analysis>>
    /\ UNCHANGED <<index, results>>
    /\ UNCHANGED strategyCalls

RunSimulate ==
    /\ pc = "simulate"
    /\ LET a == call.args
           o == SimulateAdvancedConfiguration(parameters, a.T_end.v,
                    StepCount(a.T_end, a.dt) + 1, a.y0, call.fate)
       IN  /\ sol' = o.sol
           /\ solverCalls' = IF o.sol = NoSol THEN solverCalls ELSE solverCalls + 1
           /\ IF o.raised = "ok"
              THEN pc' = "returned"
                   /\ ret' = [api |-> call.api, raised |-> "ok", result |-> o.result]
              ELSE Fail(o.raised)
    /\ UNCHANGED <<call, parameters, analysis>>
    /\ UNCHANGED <<index, results>>
    /\ UNCHANGED strategyCalls

\* The except branch of orc_bridge.run_simulation.
BridgeFallback ==
    /\ pc = "fallback"
    /\ LET o == BridgeFallbackOutcome(call.args, call.fallback_fate)
       IN  /\ sol' = o.sol
           /\ solverCalls' = IF o.sol = NoSol THEN solverCalls ELSE solverCalls + 1
           /\ IF o.raised = "ok"
              THEN pc' = "returned"
                   /\ ret' = [api |-> call.api, raised |-> "ok", result |-> o.result]
              ELSE pc' = "raised" /\ ret' = Raised(o.raised)
    /\ UNCHANGED <<call, parameters, analysis>>
    /\ UNCHANGED <<index, results>>
    /\ UNCHANGED strategyCalls

NextLegacyRun ==
    \/ RunCall
    \/ RunValidateBasic
    \/ RunCreateParams
    \/ RunSimulate
    \/ BridgeFallback

SpecLegacyRun == Init /\ [][NextLegacyRun]_vars

-----------------------------------------------------------------------------
(* The batch operations: ConfigurationManager.batch_simulate of             *)
(* orc.models.rotary_cutter, ConfigurationManager.simulate_all and          *)
(* compare_configurations of main_model.                                    *)

MaxBatch == 2

\* The lists of at most n entries of S.
RECURSIVE ListsWithin(_, _)
ListsWithin(S, n) ==
    IF n = 0 THEN {<<>>}
    ELSE LET shorter == ListsWithin(S, n - 1)
         IN  shorter \cup {Append(l, x) : l \in shorter, x \in S}

\* results[key] = value of a Python dictionary.
Put(dict, key, value) ==
    [k \in DOMAIN dict \cup {key} |-> IF k = key THEN value ELSE dict[k]]

RaisingStrategy == Func([ConstantStrategy.at EXCEPT !["other"] = Raise(1)])

\* An engine that starts each run at a speed left by the calls before it.
EngineRunSimulation_Warm(p, config, fate) ==
    IF ValidateParameters(p) # "ok" THEN [raised |-> ValidateParameters(p)]
    ELSE IF ValidateConfig(config) # "ok" THEN [raised |-> ValidateConfig(config)]
    ELSE LET warm == [config EXCEPT !.initial_angular_velocity = index]
         IN  [raised |-> "ok",
              result |-> BuildResult(
                            SolveIvp(p, warm,
                                     Linspace(config.t_start, config.t_end, config.n_points),
                                     fate),
                            p, config)]

\* SimulationEngine.run_simulation as one function.
EngineRunSimulation(p, config, fate) ==
    IF ValidateParameters(p) # "ok" THEN [raised |-> ValidateParameters(p)]
    ELSE IF ValidateConfig(config) # "ok" THEN [raised |-> ValidateConfig(config)]
    ELSE [raised |-> "ok",
          result |-> BuildResult(
                        SolveIvp(p, config,
                                 Linspace(config.t_start, config.t_end, config.n_points),
                                 fate),
                        p, config)]

\* A RotaryCutterConfig of orc.models.rotary_cutter, kept as what
\* to_physics_parameters and to_simulation_config make of it.
OrcConfig(p, time_points, fate) ==
    [params |-> p, time_points |-> time_points, fate |-> fate]

OrcConfigs ==
    {OrcConfig(DefaultParams, 11, "converges"),
     OrcConfig(DefaultParams, 11, "fails"),
     OrcConfig(DefaultParams, 9, "converges"),
     OrcConfig([DefaultParams EXCEPT !["b"] = Float(-1)], 11, "converges"),
     OrcConfig([DefaultParams EXCEPT !["tau_grass_func"] = RaisingStrategy],
               11, "converges")}

\* RotaryCutterModel(config).run_simulation(store_history=False)
ModelRunSimulation(c) ==
    IF ValidateParameters(c.params) # "ok"
    THEN [raised |-> ValidateParameters(c.params)]
    ELSE EngineRunSimulation(c.params,
                             [DefaultConfig EXCEPT !.n_points = c.time_points],
                             c.fate)

OrcNames == {"A", "B"}

\* manager.batch_simulate(config_names) is called on a manager that holds
\* the configurations A and B; config_names may name an unknown one.
BatchSimulateCall ==
    /\ pc = "idle"
    /\ \E m \in [OrcNames -> OrcConfigs],
          names \in ListsWithin(OrcNames \cup {"unknown"}, MaxBatch) :
          call' = [api |-> "batch_simulate", configurations |-> m, list |-> names]
    /\ pc' = "loop"
    /\ index' = 1
    /\ results' = NoResults
    /\ UNCHANGED <<parameters, sol, solverCalls, ret, analysis>>
    /\ UNCHANGED strategyCalls

\* One pass of the loop of batch_simulate.
BatchSimulateStep ==
    /\ pc = "loop"
    /\ call.api = "batch_simulate"
    /\ index <= Len(call.list)
    /\ LET name == call.list[index]
       IN  IF name \notin DOMAIN call.configurations
           THEN results' = results
           ELSE LET o == ModelRunSimulation(call.configurations[name])
                IN  IF o.raised = "ok"
                    THEN results' = Put(results, name, o.result)
                    ELSE results' = results
    /\ index' = index + 1
    /\ UNCHANGED <<call, pc, parameters, sol, solverCalls, ret, analysis>>
    /\ UNCHANGED strategyCalls

\* A RotaryCutterConfig of main_model: its name (NoName when the attribute
\* is not set), _params, _validated, and the fate of its integration.
NoName == "Unknown"

LegacyRotaryCutterConfig(name, p, fate) ==
    [name |-> name, params |-> p,
     validated |-> (ValidateParams(p) = "ok"), fate |-> fate]

\* The objects a manager can hold: built valid, or left invalid by an
\* update_params or set_torque_function that raised.
LegacyConfigs ==
    {LegacyRotaryCutterConfig(name, p[1], p[2]) :
        name \in {"A", "B", NoName},
        p \in {<<DefaultParams, "converges">>,
               <<DefaultParams, "fails">>,
               <<[DefaultParams EXCEPT !["b"] = Float(-1)], "converges">>,
               <<[DefaultParams EXCEPT !["tau_grass_func"] = RaisingStrategy],
                 "converges">>}}

\* RotaryCutterConfig.get_params: "ok", or the ValueError of validate().
GetParams(c) ==
    IF ~c.validated /\ ValidateParams(c.params) # "ok" THEN "ValueError" ELSE "ok"

\* RotaryCutterConfig.get_summary: "ok", or the exception of get_params.
GetSummary(c) == GetParams(c)

\* RotaryCutterConfig.simulate() with the default arguments.
ConfigSimulate(c) ==
    IF GetParams(c) # "ok" THEN [raised |-> GetParams(c), sol |-> NoSol]
    ELSE SimulateAdvancedConfiguration(c.params, 10, 11, NoY0, c.fate)

\* manager.simulate_all() is called on a manager that holds a list of
\* configurations.
SimulateAllCall ==
    /\ pc = "idle"
    /\ \E l \in ListsWithin(LegacyConfigs, MaxBatch) :
          call' = [api |-> "simulate_all", list |-> l]
    /\ pc' = "loop"
    /\ index' = 1
    /\ results' = NoResults
    /\ UNCHANGED <<parameters, sol, solverCalls, ret, analysis>>
    /\ UNCHANGED strategyCalls

\* One pass of the loop of simulate_all: the try block, and the except
\* branch, whose call of get_summary is outside any try.
SimulateAllStep ==
    /\ pc = "loop"
    /\ call.api = "simulate_all"
    /\ index <= Len(call.list)
    /\ LET config == call.list[index]
           o == ConfigSimulate(config)
       IN  IF o.raised = "ok"
           THEN /\ results' = Put(results, config.name,
                                  [kind |-> "result", result |-> o.result])
                /\ index' = index + 1
                /\ pc' = pc
                /\ ret' = ret
           ELSE IF GetSummary(config) = "ok"
           THEN /\ results' = Put(results, config.name, [kind |-> "error"])
                /\ index' = index + 1
                /\ pc' = pc
                /\ ret' = ret
           ELSE /\ pc' = "raised"
                /\ ret' = Raised(GetSummary(config))
                /\ UNCHANGED <<index, results>>
    /\ UNCHANGED <<call, parameters, sol, solverCalls, analysis>>
    /\ UNCHANGED strategyCalls

\* analyze_performance(result) raises: np.max of an empty power array.
AnalyzePerformanceRaises(result) == Len(result.power) = 0

\* main_model.run_simulation as one function.
MainRunSimulation(a, fate) ==
    IF ValidateSimulationParams(a.mass, a.radius, a.omega, a.T_end, a.dt) # "ok"
    THEN [raised |-> "ValueError", sol |-> NoSol]
    ELSE IF RunParameters(a).raised # "ok"
    THEN [raised |-> RunParameters(a).raised, sol |-> NoSol]
    ELSE SimulateAdvancedConfiguration(RunParameters(a).params, a.T_end.v,
                                       StepCount(a.T_end, a.dt) + 1, a.y0, fate)

\* The entries of the list given to compare_configurations: the keyword
\* arguments of run_simulation, and the fate of the integration.
CompareConfigs ==
    {[args |-> DefaultArgs, fate |-> "converges"],
     [args |-> DefaultArgs, fate |-> "fails"],
     [args |-> [DefaultArgs EXCEPT !.omega = Float(-1)], fate |-> "converges"],
     [args |-> [DefaultArgs EXCEPT !.advanced_params = DefaultParams],
      fate |-> "converges"],
     [args |-> [DefaultArgs EXCEPT
                   !.advanced_params = [DefaultParams EXCEPT !["b"] = Float(-1)]],
      fate |-> "converges"]}

NoComparison == [results |-> <<>>, performance |-> <<>>]

\* compare_configurations(configs) is called.
CompareCall ==
    /\ pc = "idle"
    /\ \E l \in ListsWithin(CompareConfigs, MaxBatch) :
          call' = [api |-> "compare_configurations", list |-> l]
    /\ pc' = "loop"
    /\ index' = 1
    /\ results' = NoComparison
    /\ UNCHANGED <<parameters, sol, solverCalls, ret, analysis>>
    /\ UNCHANGED strategyCalls

\* One pass of the loop of compare_configurations.
CompareStep ==
    /\ pc = "loop"
    /\ call.api = "compare_configurations"
    /\ index <= Len(call.list)
    /\ LET config == call.list[index]
           o == MainRunSimulation(config.args, config.fate)
       IN  IF o.raised = "ok" /\ ~AnalyzePerformanceRaises(o.result)
           THEN results' = [results |-> Append(results.results, o.result),
                            performance |-> Append(results.performance, "performance")]
           ELSE results' = [results |-> Append(results.results, None),
                            performance |-> Append(results.performance, None)]
    /\ index' = index + 1
    /\ UNCHANGED <<call, pc, parameters, sol, solverCalls, ret, analysis>>
    /\ UNCHANGED strategyCalls

\* The loop of a batch operation is over: it returns its output.
BatchReturn ==
    /\ pc = "loop"
    /\ index > Len(call.list)
    /\ pc' = "returned"
    /\ ret' = [api |-> call.api, raised |-> "ok", result |-> results]
    /\ UNCHANGED <<call, parameters, sol, solverCalls, analysis, index, results>>
    /\ UNCHANGED strategyCalls

NextBatch ==
    \/ BatchSimulateCall
    \/ BatchSimulateStep
    \/ SimulateAllCall
    \/ SimulateAllStep
    \/ CompareCall
    \/ CompareStep
    \/ BatchReturn

SpecBatch == Init /\ [][NextBatch]_vars

-----------------------------------------------------------------------------
(* The functions of the physics on their own: RotaryCutterPhysics           *)
(* .calculate_total_moment_of_inertia, .calculate_torque_components,        *)
(* .differential_equation_system, and main_model.rotary_cutter_system.      *)
(* Here torques are exact, in 1e-4 N m; an angular acceleration is the      *)
(* quotient num / den in rad/s^2, kept as the pair it is computed from.     *)

MaxOmega == 3

Omegas == (-MaxOmega)..MaxOmega
Thetas == {0, 1}
PhysicsTimes == {"t0", "t5", "other"}

\* params[f] raises KeyError for one of the fields.
KeyMissing(p, fields) == \E f \in fields : ~Has(p, f)

\* -x for a Python float that has no finite value.
NegateNonFinite(x) ==
    CASE x.k = "inf" -> NInf
      [] x.k = "ninf" -> Inf
      [] OTHER -> NaN

\* calculate_torque_components(t, omega, params): the exception it raises or
\* "ok" and the dictionary it returns, and the times it called the strategy
\* at.
CalculateTorqueComponents_GrassAdded(t, omega, p) ==
    LET input == 1000 * p["tau_input"].v
        friction == 100 * p["b"].v * omega
        drag == 100 * p["c_drag"].v * omega * omega * Sign(omega)
        grass == p["k_grass"].v * p["rho_veg"].v * p["v_avance"].v * p["R"].v
    IN  [raised |-> "ok", calls |-> <<>>,
         result |-> [input |-> Float(input), friction |-> Float(friction),
                     drag |-> Float(drag), grass |-> Float(grass),
                     net |-> Float(input - friction - drag + grass)]]

CalculateTorqueComponents(t, omega, p) ==
    IF KeyMissing(p, {"tau_input", "b", "c_drag"})
    THEN [raised |-> "KeyError", calls |-> <<>>]
    ELSE LET input == 1000 * p["tau_input"].v
             friction == 100 * p["b"].v * omega
             drag == 100 * p["c_drag"].v * omega * omega * Sign(omega)
             Components(grass, net) ==
                 [raised |-> "ok",
                  calls |-> IF HasStrategy(p) THEN <<t>> ELSE <<>>,
                  result |-> [input |-> Float(input), friction |-> Float(friction),
                              drag |-> Float(drag), grass |-> grass, net |-> net]]
         IN  IF HasStrategy(p)
             THEN LET f == p["tau_grass_func"]
                      r == CallStrategy(f, t)
                  IN  IF f.k # "func" THEN [raised |-> "TypeError", calls |-> <<>>]
                      ELSE IF r.k = "raise" THEN [raised |-> "Exception", calls |-> <<t>>]
                      ELSE IF ~IsNumber(r) THEN [raised |-> "TypeError", calls |-> <<t>>]
                      ELSE IF IsFinite(r)
                      THEN Components(Float(1000 * r.v),
                                      Float(input - friction - drag - 1000 * r.v))
                      ELSE Components(r, NegateNonFinite(r))
             ELSE IF KeyMissing(p, {"k_grass", "rho_veg", "v_avance", "R"})
             THEN [raised |-> "KeyError", calls |-> <<>>]
             ELSE LET grass == p["k_grass"].v * p["rho_veg"].v
                                 * p["v_avance"].v * p["R"].v
                  IN  Components(Float(grass),
                                 Float(input - friction - drag - grass))

\* calculate_total_moment_of_inertia(params): KeyError or the value.
CalculateTotalMomentOfInertia(p) ==
    IF KeyMissing(p, {"I_plate", "m_c", "R", "L"})
    THEN [raised |-> "KeyError"]
    ELSE [raised |-> "ok", result |-> Float(TotalMomentOfInertia(p))]

\* net / I_total for a numpy float net: the pair, or inf, -inf, nan when
\* I_total is 0 or net has no finite value.
Quotient(net, I_total) ==
    IF ~IsFinite(net) THEN net
    ELSE IF I_total # 0 THEN [k |-> "ratio", num |-> 10 * net.v, den |-> I_total]
    ELSE IF net.v > 0 THEN Inf
    ELSE IF net.v < 0 THEN NInf
    ELSE NaN

\* differential_equation_system that lets the angle into the first
\* component.
DifferentialEquationSystem_WithTheta(t, y, p) ==
    LET torque_components == CalculateTorqueComponents(t, y[2], p)
    IN  IF KeyMissing(p, {"I_plate", "m_c", "R", "L"})
        THEN [raised |-> "KeyError", calls |-> <<>>]
        ELSE IF torque_components.raised # "ok"
        THEN [raised |-> torque_components.raised, calls |-> torque_components.calls]
        ELSE [raised |-> "ok", calls |-> torque_components.calls,
              result |-> <<y[2] + y[1],
                           Quotient(torque_components.result.net,
                                    TotalMomentOfInertia(p))>>]

\* differential_equation_system(t, y, params) with y = [theta, omega].
DifferentialEquationSystem(t, y, p) ==
    LET omega == y[2]
        torque_components == CalculateTorqueComponents(t, omega, p)
    IN  IF KeyMissing(p, {"I_plate", "m_c", "R", "L"})
        THEN [raised |-> "KeyError", calls |-> <<>>]
        ELSE IF torque_components.raised # "ok"
        THEN [raised |-> torque_components.raised, calls |-> torque_components.calls]
        ELSE [raised |-> "ok", calls |-> torque_components.calls,
              result |-> <<omega,
                           Quotient(torque_components.result.net,
                                    TotalMomentOfInertia(p))>>]

\* rotary_cutter_system with the vegetation torque driving the rotor.
RotaryCutterSystem_GrassAdded(t, y, p) ==
    LET omega == y[2]
    IN  IF KeyMissing(p, RequiredParams)
        THEN [raised |-> "KeyError", calls |-> <<>>]
        ELSE LET n_blades == IF Has(p, "n_blades") THEN p["n_blades"].v ELSE 2
                 I_total == p["I_plate"].v
                              + n_blades * p["m_c"].v
                                  * (p["R"].v + p["L"].v) * (p["R"].v + p["L"].v)
                 r == IF HasStrategy(p)
                      THEN CallStrategy(p["tau_grass_func"], t)
                      ELSE Float(p["k_grass"].v * p["rho_veg"].v
                                   * p["v_avance"].v * p["R"].v)
                 tau_grass == IF HasStrategy(p) /\ IsFinite(r)
                              THEN Float(1000 * r.v) ELSE r
                 friction == 100 * p["b"].v * omega
                 drag == 100 * p["c_drag"].v * omega * omega * Sign(omega)
                 calls == IF HasStrategy(p) THEN <<t>> ELSE <<>>
             IN  IF HasStrategy(p) /\ p["tau_grass_func"].k # "func"
                 THEN [raised |-> "TypeError", calls |-> <<>>]
                 ELSE IF tau_grass.k = "raise"
                 THEN [raised |-> "Exception", calls |-> calls]
                 ELSE IF ~IsNumber(tau_grass)
                 THEN [raised |-> "TypeError", calls |-> calls]
                 ELSE [raised |-> "ok", calls |-> calls,
                       result |->
                           <<omega,
                             Quotient(IF IsFinite(tau_grass)
                                      THEN Float(1000 * p["tau_input"].v - friction
                                                   - drag + tau_grass.v)
                                      ELSE NegateNonFinite(tau_grass),
                                      I_total)>>]

\* main_model.rotary_cutter_system(t, y, params): it reads every parameter
\* first and computes the inertia and the torques itself.
RotaryCutterSystem(t, y, p) ==
    LET omega == y[2]
    IN  IF KeyMissing(p, RequiredParams)
        THEN [raised |-> "KeyError", calls |-> <<>>]
        ELSE LET n_blades == IF Has(p, "n_blades") THEN p["n_blades"].v ELSE 2
                 I_total == p["I_plate"].v
                              + n_blades * p["m_c"].v
                                  * (p["R"].v + p["L"].v) * (p["R"].v + p["L"].v)
                 r == IF HasStrategy(p)
                      THEN CallStrategy(p["tau_grass_func"], t)
                      ELSE Float(p["k_grass"].v * p["rho_veg"].v
                                   * p["v_avance"].v * p["R"].v)
                 tau_grass == IF HasStrategy(p) /\ IsFinite(r)
                              THEN Float(1000 * r.v) ELSE r
                 friction == 100 * p["b"].v * omega
                 drag == 100 * p["c_drag"].v * omega * omega * Sign(omega)
                 calls == IF HasStrategy(p) THEN <<t>> ELSE <<>>
             IN  IF HasStrategy(p) /\ p["tau_grass_func"].k # "func"
                 THEN [raised |-> "TypeError", calls |-> <<>>]
                 ELSE IF tau_grass.k = "raise"
                 THEN [raised |-> "Exception", calls |-> calls]
                 ELSE IF ~IsNumber(tau_grass)
                 THEN [raised |-> "TypeError", calls |-> calls]
                 ELSE [raised |-> "ok", calls |-> calls,
                       result |->
                           <<omega,
                             Quotient(IF IsFinite(tau_grass)
                                      THEN Float(1000 * p["tau_input"].v - friction
                                                   - drag - tau_grass.v)
                                      ELSE NegateNonFinite(tau_grass),
                                      I_total)>>]

\* The parameter dictionaries the functions are called with: valid ones,
\* and some that validation would reject.
PhysicsParams ==
    {DefaultParams,
     [DefaultParams EXCEPT !["I_plate"] = Float(0), !["m_c"] = Float(0)],
     [DefaultParams EXCEPT !["tau_grass_func"] = Func([s \in Slots |-> Float(0)])],
     [DefaultParams EXCEPT !["tau_grass_func"] =
         Func([ConstantStrategy.at EXCEPT !["t5"] = Float(250)])]}
    \cup {[DefaultParams EXCEPT ![d[1]] = d[2]] :
            d \in {<<"n_blades", Missing>>, <<"n_blades", Int_(1)>>,
                   <<"n_blades", Int_(12)>>, <<"b", Float(0)>>,
                   <<"b", Float(-1)>>, <<"c_drag", Float(0)>>,
                   <<"L", Float(0)>>, <<"k_grass", Float(0)>>,
                   <<"R", Missing>>, <<"k_grass", Missing>>,
                   <<"tau_grass_func", Missing>>,
                   <<"tau_grass_func", ConstantStrategy>>,
                   <<"tau_grass_func", RaisingStrategy>>,
                   <<"tau_grass_func",
                     Func([ConstantStrategy.at EXCEPT !["other"] = Str])>>,
                   <<"tau_grass_func",
                     Func([ConstantStrategy.at EXCEPT !["t0"] = NaN])>>}}

InitPhysics ==
    /\ call = NoCall
    /\ pc = "ready"
    /\ parameters \in PhysicsParams
    /\ sol = NoSol
    /\ solverCalls = 0
    /\ ret = NoRet
    /\ analysis = NoAnalysis
    /\ index = 0
    /\ results = NoResults
    /\ strategyCalls = <<>>

\* A function of the physics is called and returns or raises.
PhysicsCall(api, args, o) ==
    /\ pc = "ready"
    /\ pc' = "done"
    /\ call' = [api |-> api, params |-> parameters] @@ args
    /\ ret' = IF o.raised = "ok"
              THEN [api |-> api, raised |-> "ok", result |-> o.result]
              ELSE [api |-> api, raised |-> o.raised]
    /\ strategyCalls' = o.calls
    /\ UNCHANGED <<parameters, sol, solverCalls, analysis, index, results>>

CallTotalMomentOfInertia ==
    PhysicsCall("calculate_total_moment_of_inertia", <<>>,
                CalculateTotalMomentOfInertia(parameters) @@ [calls |-> <<>>])

CallTorqueComponents ==
    \E t \in PhysicsTimes, omega \in Omegas :
        PhysicsCall("calculate_torque_components", [t |-> t, omega |-> omega],
                    CalculateTorqueComponents(t, omega, parameters))

CallDifferentialEquationSystem ==
    \E t \in PhysicsTimes, theta \in Thetas, omega \in Omegas :
        PhysicsCall("differential_equation_system",
                    [t |-> t, theta |-> theta, omega |-> omega],
                    DifferentialEquationSystem(t, <<theta, omega>>, parameters))

CallRotaryCutterSystem ==
    \E t \in PhysicsTimes, theta \in Thetas, omega \in Omegas :
        PhysicsCall("rotary_cutter_system",
                    [t |-> t, theta |-> theta, omega |-> omega],
                    RotaryCutterSystem(t, <<theta, omega>>, parameters))

NextPhysics ==
    \/ CallTotalMomentOfInertia
    \/ CallTorqueComponents
    \/ CallDifferentialEquationSystem
    \/ CallRotaryCutterSystem

SpecPhysics == InitPhysics /\ [][NextPhysics]_vars

-----------------------------------------------------------------------------
(* The metrics: main_model.compute_metrics, orc_bridge.compute_metrics,     *)
(* PerformanceAnalyzer._calculate_energy_metrics and                        *)
(* _calculate_stability_metrics, calculate_efficiency,                      *)
(* calculate_stability_metrics and the legacy analyze_performance.          *)
(* A trajectory is sampled at t = 0, 1, 2, ... s; its omega is in           *)
(* 1e-7 rad/s and torques are in 1e-2 N m, so powers are in 1e-9 W and the  *)
(* energies, kept doubled (the trapezoid rule halves them), in 0.5e-9 J.    *)
(* Instantaneous efficiencies are in 0.01 %.                                *)

MaxSamples == 3
OmegaSamples == {-1, 0, 1, 2}
TorqueSamples == {-3, 0, 3}
SignalsOver(S, n) == [1..n -> S]

\* sol.t and sol.y[1] of a solve_ivp result.
Trajectories ==
    UNION {{[t |-> [i \in 1..n |-> i - 1], y |-> y] : y \in SignalsOver(OmegaSamples, n)} :
             n \in 1..MaxSamples}

\* The strategies here return numbers or NaN, or raise.
MetricsParams ==
    {DefaultParams}
    \cup {[DefaultParams EXCEPT ![d[1]] = d[2]] :
            d \in {<<"tau_input", Float(1)>>, <<"tau_input", Float(100)>>,
                   <<"k_grass", Float(0)>>, <<"R", Missing>>,
                   <<"tau_grass_func", ConstantStrategy>>,
                   <<"tau_grass_func", RaisingStrategy>>,
                   <<"tau_grass_func", Func([s \in Slots |-> Float(3000)])>>,
                   <<"tau_grass_func",
                     Func([ConstantStrategy.at EXCEPT !["t1"] = Float(-1)])>>,
                   <<"tau_grass_func",
                     Func([ConstantStrategy.at EXCEPT !["t0"] = NaN])>>,
                   <<"tau_grass_func",
                     Func([s \in Slots |->
                             CASE s = "t0" -> Float(1600)
                               [] s = "t1" -> Float(1200)
                               [] OTHER -> Float(1700)])>>}}

\* np.sum
RECURSIVE Sum(_)
Sum(s) == IF s = <<>> THEN 0 ELSE Head(s) + Sum(Tail(s))

\* 1e-6 W
PowerThreshold == 1000

\* The basic metrics, computed the same way by orc_bridge.compute_metrics and
\* by the first half of main_model.compute_metrics.
BasicMetrics(s, p) ==
    LET n == Len(s.t)
        steps == 1..(n - 1)
        omega2 == [i \in steps |-> (s.y[i] + s.y[i + 1]) * (s.t[i + 1] - s.t[i])]
        grass == [i \in steps |-> GrassTorque(SlotOf(s.t[i], 1), p)]
        E_total == Sum([i \in steps |-> 10 * p["tau_input"].v * omega2[i]])
        E_util == IF \A i \in steps : IsFinite(grass[i])
                  THEN Float(Sum([i \in steps |-> grass[i].v * omega2[i]]))
                  ELSE NaN
    IN  IF KeyMissing(p, {"tau_input", "R", "k_grass", "rho_veg", "v_avance"})
        THEN [raised |-> "KeyError"]
        ELSE IF \E i \in steps : TorqueRaises(SlotOf(s.t[i], 1), p)
        THEN [raised |-> "Exception"]
        ELSE [raised |-> "ok",
              result |-> [E_total |-> Float(E_total),
                          E_util |-> E_util,
                          eta |-> IF E_total > 0
                                  THEN IF IsFinite(E_util)
                                       THEN [k |-> "ratio", num |-> E_util.v,
                                             den |-> E_total]
                                       ELSE NaN
                                  ELSE Int_(0)]]

\* Losses that add the useful energy.
Losses_Added(total, useful) ==
    IF IsFinite(useful) THEN Float(total.v + useful.v) ELSE NaN

\* E_losses = E_total - E_util
Losses(total, useful) ==
    IF IsFinite(useful) THEN Float(total.v - useful.v) ELSE NaN

\* No clipping.
Clip_None(x) == x

\* np.clip(x, 0.0, 100.0)
Clip(x) == IF x < 0 THEN 0 ELSE IF x > 10000 THEN 10000 ELSE x

\* Bands that leave out the samples at exactly 60 % and 80 %.
TimeInBands_Open(efficiency) ==
    LET n == Len(efficiency)
        share(band) == [num |-> 100 * Cardinality({i \in 1..n : efficiency[i] \in band}),
                        den |-> n]
    IN  [high_efficiency_time_percent |-> share(8001..10000),
         medium_efficiency_time_percent |-> share(6001..7999),
         low_efficiency_time_percent |-> share(0..5999)]

\* The shares of the samples above 80 %, from 60 % to 80 % and below 60 %,
\* each as the fraction num / den of 100.
TimeInBands(efficiency) ==
    LET n == Len(efficiency)
        count(in(_)) == Cardinality({i \in 1..n : in(efficiency[i])})
        high(x) == x > 8000
        medium(x) == x >= 6000 /\ x <= 8000
        low(x) == x < 6000
    IN  [high_efficiency_time_percent |-> [num |-> 100 * count(high), den |-> n],
         medium_efficiency_time_percent |-> [num |-> 100 * count(medium), den |-> n],
         low_efficiency_time_percent |-> [num |-> 100 * count(low), den |-> n]]

\* main_model.compute_metrics(sol, params)
ComputeMetrics(s, p) ==
    LET n == Len(s.t)
        basic == BasicMetrics(s, p)
        grass == [i \in 1..n |-> GrassTorque(SlotOf(s.t[i], 1), p)]
        power_total_full == [i \in 1..n |-> 10 * p["tau_input"].v * s.y[i]]
        power_util_full ==
            [i \in 1..n |-> IF IsFinite(grass[i]) THEN Float(grass[i].v * s.y[i])
                            ELSE NaN]
        valid_mask == [i \in 1..n |-> /\ power_total_full[i] > PowerThreshold
                                      /\ IsFinite(power_util_full[i])
                                      /\ power_util_full[i].v >= 0]
        efficiency_instantaneous ==
            [i \in 1..n |->
                Clip(IF valid_mask[i]
                     THEN (10000 * power_util_full[i].v) \div power_total_full[i]
                     ELSE 0)]
        values == {efficiency_instantaneous[i] : i \in 1..n}
    IN  IF basic.raised # "ok" THEN basic
        ELSE IF \E i \in 1..n : TorqueRaises(SlotOf(s.t[i], 1), p)
        THEN [raised |-> "Exception"]
        ELSE [raised |-> "ok",
              result |->
                  basic.result @@ TimeInBands(efficiency_instantaneous) @@
                  [power_total_series |-> power_total_full,
                   power_util_series |-> power_util_full,
                   efficiency_instantaneous |-> efficiency_instantaneous,
                   efficiency_average |-> Sum(efficiency_instantaneous) \div n,
                   E_losses |-> Losses(basic.result.E_total, basic.result.E_util),
                   efficiency_peak |-> CHOOSE x \in values : \A y \in values : x >= y,
                   efficiency_min |-> CHOOSE x \in values : \A y \in values : x <= y]]

\* calculate_efficiency(energy_useful, energy_total), the energies in
\* 1e-10 J: the quotient as a fraction, or what the division by zero gives
\* (ZeroDivisionError for Python floats, inf or nan for numpy floats).
CalculateEfficiency(energy_useful, energy_total, numpy) ==
    IF energy_total + 1 # 0
    THEN [raised |-> "ok",
          result |-> [k |-> "ratio", num |-> energy_useful, den |-> energy_total + 1]]
    ELSE IF ~numpy THEN [raised |-> "ZeroDivisionError"]
    ELSE [raised |-> "ok",
          result |-> IF energy_useful > 0 THEN Inf
                     ELSE IF energy_useful < 0 THEN NInf ELSE NaN]

\* PerformanceAnalyzer._calculate_energy_metrics(time, power, parameters),
\* the power in 1e-10 W, so that 1e-10 J is 2 of the doubled energy.  The
\* sum tau_input + 1e-10 is tau_input for the torques of MetricsParams.
EnergyMetrics(time, power, p) ==
    LET n == Len(time)
        steps == 1..(n - 1)
        tau_input == 10 * p["tau_input"].v
        grass == [i \in 1..n |-> GrassTorque(SlotOf(time[i], 1), p)]
        energy_total ==
            Sum([i \in steps |->
                   (Abs(power[i]) + Abs(power[i + 1])) * (time[i + 1] - time[i])])
        useful_power == [i \in 1..n |-> grass[i].v * Abs(power[i])]
        finite == \A i \in 1..n : IsFinite(grass[i])
        energy_useful ==
            [k |-> "ratio",
             num |-> Sum([i \in steps |->
                            (useful_power[i] + useful_power[i + 1])
                               * (time[i + 1] - time[i])]),
             den |-> tau_input]
    IN  IF \E i \in 1..n : TorqueRaises(SlotOf(time[i], 1), p)
        THEN [raised |-> "Exception"]
        ELSE [raised |-> "ok",
              result |->
                  [energy_total |-> Float(energy_total),
                   energy_useful |-> IF finite THEN energy_useful ELSE NaN,
                   energy_losses |->
                       IF finite
                       THEN [k |-> "ratio",
                             num |-> energy_total * tau_input - energy_useful.num,
                             den |-> tau_input]
                       ELSE NaN,
                   efficiency |->
                       IF finite
                       THEN [k |-> "ratio", num |-> energy_useful.num,
                             den |-> tau_input * (energy_total + 2)]
                       ELSE NaN]]

\* 1 - np.std(signal) / (np.mean(np.abs(signal)) + 1e-10), kept as the
\* numbers that decide its place: with n samples of sum s, sum of squares q
\* and sum of magnitudes a it is 1 - sqrt(n q - s^2) / (a + n 1e-10).
StabilityIndex(signal) ==
    LET n == Len(signal)
        s == Sum(signal)
        q == Sum([i \in 1..n |-> signal[i] * signal[i]])
    IN  [k |-> "index", var |-> n * q - s * s,
         mean |-> Sum([i \in 1..n |-> Abs(signal[i])]), n |-> n]

\* The index is below 0: the deviation exceeds the mean magnitude (the
\* samples are whole numbers, so 1e-10 does not change the comparison).
Negative(x) == x.k = "index" /\ x.var > x.mean * x.mean

\* No clamping.
Clamp01_None(x) == x

\* max(0, min(1, x)); the index is never above 1.
Clamp01(x) == IF Negative(x) THEN Int_(0) ELSE x

\* PerformanceAnalyzer._calculate_stability_metrics(omega, torque, power)
StabilityMetrics(omega, torque, power) ==
    [omega |-> Clamp01(StabilityIndex(omega)),
     torque |-> Clamp01(StabilityIndex(torque)),
     power |-> Clamp01(StabilityIndex(power))]

\* calculate_stability_metrics(signal)
CalculateStabilityMetrics(signal) ==
    [stability_index |-> Clamp01(StabilityIndex(signal)),
     coefficient_of_variation |-> StabilityIndex(signal)]

\* The stability entries of main_model.analyze_performance(results), the
\* omega of the results being an array.
AnalyzePerformance(omega, torque, power) ==
    [omega_stability |-> StabilityIndex(omega),
     torque_stability |-> StabilityIndex(torque),
     power_stability |-> StabilityIndex(power)]

\* The stability entries of orc_bridge.analyze_performance(results) for
\* results without 'simulation_result'.
BridgeAnalyzePerformance(omega, torque) ==
    [omega_stability |-> StabilityIndex(omega),
     torque_stability |-> StabilityIndex(torque)]

Energies == {-10, -1, 0, 1, 10}

InitMetrics ==
    /\ call = NoCall
    /\ pc = "ready"
    /\ parameters \in MetricsParams
    /\ sol \in Trajectories
    /\ solverCalls = 0
    /\ ret = NoRet
    /\ analysis = NoAnalysis
    /\ index = 0
    /\ results = NoResults
    /\ strategyCalls = <<>>

Returns(value) == [raised |-> "ok", result |-> value, calls |-> <<>>]

\* One of the metric functions is called on the trajectory, or on signals
\* as long as it, and returns or raises.
NextMetrics ==
    \/ PhysicsCall("main_model.compute_metrics", <<>>,
                   ComputeMetrics(sol, parameters) @@ [calls |-> <<>>])
    \/ PhysicsCall("orc_bridge.compute_metrics", <<>>,
                   BasicMetrics(sol, parameters) @@ [calls |-> <<>>])
    \/ \E power \in SignalsOver(TorqueSamples, Len(sol.t)) :
          PhysicsCall("_calculate_energy_metrics", [power |-> power],
                      EnergyMetrics(sol.t, power, parameters) @@ [calls |-> <<>>])
    \/ \E energy_useful \in Energies, energy_total \in Energies, numpy \in BOOLEAN :
          PhysicsCall("calculate_efficiency",
                      [energy_useful |-> energy_useful, energy_total |-> energy_total],
                      CalculateEfficiency(energy_useful, energy_total, numpy)
                          @@ [calls |-> <<>>])
    \/ \E torque \in SignalsOver(TorqueSamples, Len(sol.t)) :
          LET power == [i \in 1..Len(sol.t) |-> torque[i] * sol.y[i]]
          IN  \/ PhysicsCall("_calculate_stability_metrics",
                             [torque |-> torque, power |-> power],
                             Returns(StabilityMetrics(sol.y, torque, power)))
              \/ PhysicsCall("main_model.analyze_performance",
                             [torque |-> torque, power |-> power],
                             Returns(AnalyzePerformance(sol.y, torque, power)))
              \/ PhysicsCall("orc_bridge.analyze_performance",
                             [torque |-> torque, power |-> power],
                             Returns(BridgeAnalyzePerformance(sol.y, torque)))
    \/ PhysicsCall("calculate_stability_metrics", <<>>,
                   Returns(CalculateStabilityMetrics(sol.y)))

SpecMetrics == InitMetrics /\ [][NextMetrics]_vars

-----------------------------------------------------------------------------
(* Frequency analysis of the torque series.  np.fft.fft is a library call:  *)
(* a torque series of n samples is given by the magnitudes of its n         *)
(* Fourier coefficients, magnitudes[k + 1] for bin k, which are symmetric   *)
(* for a real series.  A frequency is kept as its bin k, that is            *)
(* k / (n dt); bins 1 .. n/2 (rounded up) - 1 are the positive frequencies. *)

MinSpectrum == 9
MaxSpectrum == 11
Magnitudes == {0, 1, 2}

Spectra ==
    UNION {{[n |-> n,
             magnitudes |-> [i \in 1..n |->
                               half[IF i - 1 <= n - (i - 1) THEN i - 1 ELSE n - (i - 1)]]] :
               half \in [0..(n \div 2) -> Magnitudes]} :
             n \in MinSpectrum..MaxSpectrum}

\* np.argmax(magnitudes[lo + 1 .. hi + 1]) + lo: the first bin of lo .. hi
\* with the largest magnitude.
ArgMax(magnitudes, lo, hi) ==
    CHOOSE k \in lo..hi :
        /\ \A j \in lo..hi : magnitudes[j + 1] <= magnitudes[k + 1]
        /\ \A j \in lo..(k - 1) : magnitudes[j + 1] < magnitudes[k + 1]

\* PerformanceAnalyzer._calculate_frequency_metrics(time, torque)
FrequencyMetrics(n, magnitudes) ==
    IF n < 10
    THEN [dominant_frequency |-> 0, spectrum |-> [frequencies |-> {}]]
    ELSE [dominant_frequency |->
              IF (n \div 2) - 1 >= 1 THEN ArgMax(magnitudes, 1, (n \div 2) - 1) ELSE 0,
          spectrum |-> [frequencies |-> 1..((n \div 2) - 1)]]

\* dominant_freq of main_model.analyze_performance(results)
LegacyDominantFrequency(n, magnitudes) ==
    IF n > 10 THEN ArgMax(magnitudes, 1, (n \div 2) - 1) ELSE 0

InitFrequency ==
    /\ call = NoCall
    /\ pc = "ready"
    /\ parameters = DefaultParams
    /\ sol \in Spectra
    /\ solverCalls = 0
    /\ ret = NoRet
    /\ analysis = NoAnalysis
    /\ index = 0
    /\ results = NoResults
    /\ strategyCalls = <<>>

\* One of the two frequency analyses is called on the torque series.
NextFrequency ==
    \/ PhysicsCall("_calculate_frequency_metrics", <<>>,
                   Returns(FrequencyMetrics(sol.n, sol.magnitudes)))
    \/ PhysicsCall("main_model.analyze_performance", <<>>,
                   Returns([dominant_frequency |->
                               LegacyDominantFrequency(sol.n, sol.magnitudes)]))

SpecFrequency == InitFrequency /\ [][NextFrequency]_vars

-----------------------------------------------------------------------------
(* SpecModel: one RotaryCutterModel (orc.models.rotary_cutter) and its      *)
(* SimulationEngine.  run_simulation is called on the model, after its      *)
(* config has been set, and on its engine directly; get_simulation_summary  *)
(* and compare_configurations are called on the model.  analysis holds the  *)
(* model's last_result and simulation_history, results the log of the runs, *)
(* index the number of calls made.                                          *)

MaxCalls == 3

ModelConfigs ==
    {OrcConfig(DefaultParams, 11, "converges"),
     OrcConfig(DefaultParams, 11, "fails"),
     OrcConfig([DefaultParams EXCEPT !["b"] = Float(-1)], 11, "converges")}

\* RotaryCutterModel.__init__
NewModel == [last_result |-> None, simulation_history |-> <<>>]

\* A run that always appends to the history.
RecordRun_AlwaysStores(model, result, store_history) ==
    [last_result |-> result,
     simulation_history |-> Append(model.simulation_history, result)]

\* run_simulation, once the engine has returned: self.last_result = result
\* and, with store_history, self.simulation_history.append(result).
RecordRun(model, result, store_history) ==
    [last_result |-> result,
     simulation_history |-> IF store_history
                            THEN Append(model.simulation_history, result)
                            ELSE model.simulation_history]

\* RotaryCutterModel.get_simulation_summary, without the execution times.
GetSimulationSummary(model) ==
    LET history == model.simulation_history
    IN  IF history = <<>>
        THEN [total_simulations |-> 0]
        ELSE [total_simulations |-> Len(history),
              successful |-> Cardinality({i \in DOMAIN history : history[i].success}),
              failed |-> Cardinality({i \in DOMAIN history : ~history[i].success})]

\* RotaryCutterModel.compare_configurations(other_configs) of a model whose
\* config is current: the exception that leaves it, or "ok" and the rows of
\* the DataFrame; run is what self.run_simulation did.  analyze returns a
\* PerformanceMetrics, which has no get: the first entry of results whose
\* analysis is not None raises AttributeError.
CompareConfigurations(current, other_configs) ==
    LET run == ModelRunSimulation(current)
        analysed(c) == /\ ModelRunSimulation(c).raised = "ok"
                       /\ Analyze(ModelRunSimulation(c).result).raised = "ok"
        entries == <<[config |-> current, analysis |-> TRUE]>>
                     \o [i \in DOMAIN other_configs |->
                           [config |-> other_configs[i],
                            analysis |-> analysed(other_configs[i])]]
    IN  IF run.raised # "ok" THEN [raised |-> run.raised, run |-> run]
        ELSE IF Analyze(run.result).raised # "ok"
        THEN [raised |-> Analyze(run.result).raised, run |-> run]
        ELSE IF \E i \in DOMAIN entries : entries[i].analysis
        THEN [raised |-> "AttributeError", run |-> run]
        ELSE [raised |-> "ok", run |-> run, result |-> <<>>]

InitModel ==
    /\ call = NoCall
    /\ pc = "ready"
    /\ parameters = DefaultParams
    /\ sol = NoSol
    /\ solverCalls = 0
    /\ ret = NoRet
    /\ analysis = NewModel
    /\ index = 0
    /\ results = <<>>
    /\ strategyCalls = <<>>

\* An entry of the log: a call of run_simulation and what came of it.
LogEntry(api, c, store_history, o) ==
    [api |-> api, input |-> c, store_history |-> store_history, outcome |-> o]

\* model.config = c; model.run_simulation(store_history)
ModelRun ==
    /\ index < MaxCalls
    /\ \E c \in ModelConfigs, store_history \in BOOLEAN :
          LET o == ModelRunSimulation(c)
          IN  /\ call' = [api |-> "model.run_simulation", config |-> c,
                          store_history |-> store_history]
              /\ ret' = [api |-> "model.run_simulation"] @@ o
              /\ analysis' = IF o.raised = "ok"
                             THEN RecordRun(analysis, o.result, store_history)
                             ELSE analysis
              /\ results' = Append(results,
                                   LogEntry("model.run_simulation", c, store_history, o))
    /\ index' = index + 1
    /\ UNCHANGED <<pc, parameters, sol, solverCalls, strategyCalls>>

\* model.simulation_engine.run_simulation(parameters, config)
EngineRun ==
    /\ index < MaxCalls
    /\ \E c \in ModelConfigs :
          LET o == EngineRunSimulation(c.params,
                                       [DefaultConfig EXCEPT !.n_points = c.time_points],
                                       c.fate)
          IN  /\ call' = [api |-> "engine.run_simulation", config |-> c]
              /\ ret' = [api |-> "engine.run_simulation"] @@ o
              /\ results' = Append(results,
                                   LogEntry("engine.run_simulation", c, FALSE, o))
    /\ index' = index + 1
    /\ UNCHANGED <<pc, parameters, sol, solverCalls, analysis, strategyCalls>>

\* model.get_simulation_summary()
Summary ==
    /\ index < MaxCalls
    /\ call' = [api |-> "get_simulation_summary"]
    /\ ret' = [api |-> "get_simulation_summary", raised |-> "ok",
               result |-> GetSimulationSummary(analysis)]
    /\ index' = index + 1
    /\ UNCHANGED <<pc, parameters, sol, solverCalls, analysis, results, strategyCalls>>

\* model.config = c; model.compare_configurations(other_configs)
Compare ==
    /\ index < MaxCalls
    /\ \E c \in ModelConfigs, other_configs \in ListsWithin(ModelConfigs, 1) :
          LET o == CompareConfigurations(c, other_configs)
          IN  /\ call' = [api |-> "compare_configurations", config |-> c,
                          other_configs |-> other_configs]
              /\ ret' = IF o.raised = "ok"
                        THEN [api |-> "compare_configurations", raised |-> "ok",
                              result |-> o.result]
                        ELSE [api |-> "compare_configurations", raised |-> o.raised]
              /\ analysis' = IF o.run.raised = "ok"
                             THEN RecordRun(analysis, o.run.result, FALSE)
                             ELSE analysis
              /\ results' = Append(results,
                                   LogEntry("model.run_simulation", c, FALSE, o.run))
    /\ index' = index + 1
    /\ UNCHANGED <<pc, parameters, sol, solverCalls, strategyCalls>>

NextModel ==
    \/ ModelRun
    \/ EngineRun
    \/ Summary
    \/ Compare

SpecModel == InitModel /\ [][NextModel]_vars

-----------------------------------------------------------------------------
(* SpecFrame: the caller's parameter dictionary.  parameters is the         *)
(* dictionary the caller holds; it passes it to                             *)
(* SimulationEngine.run_simulation or, as advanced_params, to               *)
(* main_model.run_simulation, has the engine's result analysed, and changes *)
(* its dictionary afterwards.  A dictionary held by the program is a        *)
(* reference: the caller's own dictionary, or a copy with its own items.    *)

FrameParams ==
    {DefaultParams,
     [DefaultParams EXCEPT !["b"] = Float(-1)],
     [DefaultParams EXCEPT !["R"] = Missing],
     [DefaultParams EXCEPT !["I_plate"] = Missing],
     [DefaultParams EXCEPT !["k_grass"] = Float(1000)],
     [DefaultParams EXCEPT !["tau_grass_func"] = RaisingStrategy]}

\* The caller's dictionary itself.
CopyOf_Alias(p) == [ref |-> "caller", value |-> p]

\* p.copy()
CopyOf(p) == [ref |-> "copy", value |-> p]

\* The items of the dictionary a reference leads to.
Deref(r) == IF r.ref = "caller" THEN parameters ELSE r.value

InitFrame ==
    /\ call = NoCall
    /\ pc = "ready"
    /\ parameters \in FrameParams
    /\ sol = NoSol
    /\ solverCalls = 0
    /\ ret = NoRet
    /\ analysis = NoAnalysis
    /\ index = 0
    /\ results = NoResults
    /\ strategyCalls = <<>>

\* engine.run_simulation(parameters, config): the SimulationResult keeps
\* parameters.copy().
FrameEngineRun ==
    /\ pc = "ready"
    /\ \E fate \in Fates :
          LET o == EngineRunSimulation(parameters, DefaultConfig, fate)
          IN  /\ call' = [api |-> "engine.run_simulation", params |-> parameters]
              /\ ret' = IF o.raised = "ok"
                        THEN [raised |-> "ok",
                              result |-> [o.result EXCEPT
                                             !.parameters = CopyOf(parameters)]]
                        ELSE [raised |-> o.raised]
    /\ pc' = "returned"
    /\ UNCHANGED <<parameters, sol, solverCalls, analysis, index, results, strategyCalls>>

\* main_model.run_simulation(mass, radius, advanced_params=parameters): the
\* defaults of I_plate and R are written to params = advanced_params.copy().
FrameMainRun ==
    /\ pc = "ready"
    /\ \E fate \in Fates :
          LET a == [DefaultArgs EXCEPT !.advanced_params = parameters]
              params == CopyOf(parameters)
              o == MainRunSimulation(a, fate)
          IN  /\ call' = [api |-> "main_model.run_simulation", params |-> parameters]
              /\ ret' = IF o.raised = "ok"
                        THEN [raised |-> "ok", result |-> o.result]
                        ELSE [raised |-> o.raised]
              /\ parameters' =
                    IF /\ ValidateSimulationParams(a.mass, a.radius, a.omega,
                                                   a.T_end, a.dt) = "ok"
                       /\ params.ref = "caller"
                    THEN RunParameters(a).params
                    ELSE parameters
    /\ pc' = "returned"
    /\ UNCHANGED <<sol, solverCalls, analysis, index, results, strategyCalls>>

\* PerformanceAnalyzer().analyze(result) of the result the engine returned.
FrameAnalyze ==
    /\ pc = "returned"
    /\ call.api = "engine.run_simulation"
    /\ ret.raised = "ok"
    /\ analysis' = Analyze(ret.result)
    /\ pc' = "analysed"
    /\ UNCHANGED <<call, parameters, sol, solverCalls, ret, index, results, strategyCalls>>

\* The caller changes its dictionary after the calls.
CallerChange ==
    /\ pc \in {"returned", "analysed"}
    /\ \E p \in FrameParams \ {parameters} : parameters' = p
    /\ pc' = "changed"
    /\ UNCHANGED <<call, sol, solverCalls, ret, analysis, index, results, strategyCalls>>

NextFrame ==
    \/ FrameEngineRun
    \/ FrameMainRun
    \/ FrameAnalyze
    \/ CallerChange

SpecFrame == InitFrame /\ [][NextFrame]_vars

-----------------------------------------------------------------------------
(* SpecDefaults: create_default_params(mass, radius, tau_input) of          *)
(* main_model and of orc_bridge, and validate_params of the dictionary it   *)
(* returned.  Masses are in 0.1 kg, radii in 0.01 m, torques in 0.1 N*m;    *)
(* the inputs are multiples of 1 kg and 0.1 m, for which the products by    *)
(* 0.4, 0.3 and 0.1 are whole.                                              *)

DefaultMasses == {-10, 0, 10, 100, 5000, 10000, 10010}
DefaultRadii == {0, 10, 50, 500, 510}
DefaultTorques == {-1, 0, 1, 1000, 100000, 100001}

\* These functions call no strategy.
NoCalls == [calls |-> <<>>]

InitDefaults ==
    /\ call = NoCall
    /\ pc = "ready"
    /\ parameters = DefaultParams
    /\ sol = NoSol
    /\ solverCalls = 0
    /\ ret = NoRet
    /\ analysis = NoAnalysis
    /\ index = 0
    /\ results = NoResults
    /\ strategyCalls = <<>>

NextDefaults ==
    \/ \E mass \in DefaultMasses, radius \in DefaultRadii, tau_input \in DefaultTorques :
          LET params == DefaultParamsFor(mass, radius, tau_input)
          IN  PhysicsCall("main_model.create_default_params",
                          [mass |-> mass, radius |-> radius, tau_input |-> tau_input],
                          IF ValidateParams(params) = "ok"
                          THEN [raised |-> "ok", result |-> params] @@ NoCalls
                          ELSE [raised |-> "ValueError"] @@ NoCalls)
    \/ \E mass \in DefaultMasses, radius \in DefaultRadii, tau_input \in DefaultTorques :
          PhysicsCall("orc_bridge.create_default_params",
                      [mass |-> mass, radius |-> radius, tau_input |-> tau_input],
                      [raised |-> "ok",
                       result |-> [BridgeDefaultParamsFor(mass, radius) EXCEPT
                                      !["tau_input"] = Float(tau_input)]] @@ NoCalls)
    \/ /\ pc = "done"
       /\ ret.raised = "ok"
       /\ pc' = "validated"
       /\ analysis' = [status |-> ValidateParams(ret.result)]
       /\ UNCHANGED <<call, parameters, sol, solverCalls, ret, index, results, strategyCalls>>

SpecDefaults == InitDefaults /\ [][NextDefaults]_vars

-----------------------------------------------------------------------------
(* SpecConfig: one RotaryCutterConfig of main_model, built with its default *)
(* arguments, and the calls of its methods.  analysis holds the object:     *)
(* params is _params, validated is _validated; index counts the calls.      *)

MaxMethodCalls == 3

\* The keyword arguments given to update_params.
ConfigKwargs ==
    {[b |-> Float(-1)],
     [b |-> Float(20)],
     [name |-> Str],
     [tau_grass_func |-> RaisingStrategy],
     [L |-> Float(121), tau_input |-> Float(3000)]}

\* The arguments given to set_torque_function.
TorqueFunctions == {ConstantStrategy, RaisingStrategy, Str, None}

\* A validate() that believes the parameters.
ConfigValidate_Trusting(c) ==
    [raised |-> "ok", config |-> [c EXCEPT !.validated = TRUE]]

\* RotaryCutterConfig.validate: the object it leaves, and "ok" or the
\* ValueError it raises.
ConfigValidate(c) ==
    IF ValidateParams(c.params) = "ok"
    THEN [raised |-> "ok", config |-> [c EXCEPT !.validated = TRUE]]
    ELSE [raised |-> "ValueError", config |-> [c EXCEPT !.validated = FALSE]]

\* RotaryCutterConfig.reset_to_defaults, for the base values of __init__.
ResetToDefaults(c) ==
    LET params == DefaultParamsFor(150, 60, 2000)
    IN  IF ValidateParams(params) = "ok"
        THEN [raised |-> "ok", config |-> [c EXCEPT !.params = params, !.validated = TRUE]]
        ELSE [raised |-> "ValueError", config |-> c]

\* RotaryCutterConfig.update_params(**kwargs)
UpdateParams(c, kwargs) ==
    LET valid_params == {k \in DOMAIN kwargs : k # "name" /\ k \in Fields /\ Has(c.params, k)}
    IN  ConfigValidate([c EXCEPT
            !.params = [f \in Fields |->
                          IF f \in valid_params THEN kwargs[f] ELSE c.params[f]],
            !.validated = FALSE])

\* RotaryCutterConfig.set_torque_function(torque_func)
SetTorqueFunction(c, torque_func) ==
    ConfigValidate([c EXCEPT !.params["tau_grass_func"] = torque_func,
                             !.validated = FALSE])

\* RotaryCutterConfig.get_params: the object it leaves, and the copy of
\* _params it returns or the ValueError of validate().
GetParamsOf(c) ==
    LET checked == IF c.validated THEN [raised |-> "ok", config |-> c]
                   ELSE ConfigValidate(c)
    IN  IF checked.raised = "ok"
        THEN checked @@ [result |-> checked.config.params]
        ELSE checked

InitConfig ==
    /\ call = NoCall
    /\ pc = "ready"
    /\ parameters = DefaultParams
    /\ sol = NoSol
    /\ solverCalls = 0
    /\ ret = NoRet
    /\ analysis = [params |-> DefaultParamsFor(150, 60, 2000), validated |-> TRUE]
    /\ index = 0
    /\ results = NoResults
    /\ strategyCalls = <<>>

\* A call of a method: o.config is the object it leaves, o.raised "ok" or
\* the exception; call.before is the object it was called on.
ConfigCall(api, args, o) ==
    /\ index < MaxMethodCalls
    /\ index' = index + 1
    /\ call' = [api |-> api, before |-> analysis] @@ args
    /\ analysis' = o.config
    /\ ret' = IF o.raised = "ok" /\ "result" \in DOMAIN o
              THEN [api |-> api, raised |-> "ok", result |-> o.result]
              ELSE [api |-> api, raised |-> o.raised]
    /\ UNCHANGED <<pc, parameters, sol, solverCalls, results, strategyCalls>>

NextConfig ==
    \/ ConfigCall("reset_to_defaults", <<>>, ResetToDefaults(analysis))
    \/ \E kwargs \in ConfigKwargs :
          ConfigCall("update_params", [kwargs |-> kwargs], UpdateParams(analysis, kwargs))
    \/ \E torque_func \in TorqueFunctions :
          ConfigCall("set_torque_function", [torque_func |-> torque_func],
                     SetTorqueFunction(analysis, torque_func))
    \/ ConfigCall("validate", <<>>, ConfigValidate(analysis))
    \/ ConfigCall("get_params", <<>>, GetParamsOf(analysis))
    \/ \E fate \in Fates :
          LET o == GetParamsOf(analysis)
              run == SimulateAdvancedConfiguration(o.result, 10, 11, NoY0, fate)
          IN  ConfigCall("simulate",
                         [fate |-> fate,
                          handed |-> IF o.raised = "ok" THEN o.result ELSE None],
                         IF o.raised # "ok" THEN o
                         ELSE [raised |-> run.raised, config |-> o.config,
                               result |-> [params |-> o.result]])

SpecConfig == InitConfig /\ [][NextConfig]_vars

-----------------------------------------------------------------------------
(* SpecStall: a trajectory under the equation of motion, sample by sample.  *)
(* Each step advances the state [theta, omega] by the derivative that       *)
(* differential_equation_system or rotary_cutter_system returns, over one   *)
(* step of 1 / StepsPerSecond s; omega is kept in whole rad/s.  The         *)
(* vegetation torque is the constant model k_grass*rho_veg*v_avance*R.      *)

MaxSteps == 12
StepsPerSecond == 2

\* Scenario B: k_grass = 50, rho_veg = 5, v_avance = 10, R = 0.6,
\* tau_input = 200.
ScenarioB ==
    [DefaultParams EXCEPT !["k_grass"] = Float(50), !["rho_veg"] = Float(50),
                          !["v_avance"] = Float(100)]

StallParams ==
    {ScenarioB,
     [ScenarioB EXCEPT !["b"] = Float(0), !["c_drag"] = Float(0)],
     [ScenarioB EXCEPT !["b"] = Float(500)],
     [DefaultParams EXCEPT !["tau_input"] = Float(100)],
     [DefaultParams EXCEPT !["k_grass"] = Float(150)],
     [DefaultParams EXCEPT !["tau_input"] = Float(270)],
     DefaultParams}

InitStall ==
    /\ \E api \in {"differential_equation_system", "rotary_cutter_system"},
          omega \in {0, 20} :
          /\ call = [api |-> api, omega |-> omega]
          /\ sol = [theta |-> 0, omega |-> omega]
    /\ pc = "ready"
    /\ parameters \in StallParams
    /\ solverCalls = 0
    /\ ret = NoRet
    /\ analysis = NoAnalysis
    /\ index = 0
    /\ results = NoResults
    /\ strategyCalls = <<>>

\* One step of the integration with the derivative dydt.
StallStep(dydt) ==
    /\ index < MaxSteps
    /\ dydt.raised = "ok"
    /\ sol' = [theta |-> sol.theta + dydt.result[1],
               omega |-> sol.omega
                           + dydt.result[2].num \div (dydt.result[2].den * StepsPerSecond)]
    /\ index' = index + 1
    /\ UNCHANGED <<call, pc, parameters, solverCalls, ret, analysis, results, strategyCalls>>

NextStall ==
    \/ /\ call.api = "differential_equation_system"
       /\ StallStep(DifferentialEquationSystem("other", <<sol.theta, sol.omega>>, parameters))
    \/ /\ call.api = "rotary_cutter_system"
       /\ StallStep(RotaryCutterSystem("other", <<sol.theta, sol.omega>>, parameters))

\* The integration runs to the end of its time span.
SpecStall == InitStall /\ [][NextStall]_vars /\ WF_vars(NextStall)

-----------------------------------------------------------------------------
(* Claims about one run (Spec).                                             *)

IsEngineCall == call # NoCall /\ call.api = "engine.run_simulation"
IsLegacyCall == call # NoCall /\ call.api = "simulate_advanced_configuration"

\* What the validator of the called function says of the caller's dictionary.
ParamValidation ==
    IF IsEngineCall THEN ValidateParameters(call.parameters)
    ELSE ValidateParams(call.parameters)

ParamValidationDone == pc \notin {"idle", "validate_parameters", "legacy_validate"}

\* C1: in SimulationEngine.run_simulation and in
\* main_model.simulate_advanced_configuration the solver is invoked only
\* after the parameters have passed validation; for a dictionary that fails
\* validation the run ends with the validation error, the solver has not been
\* called and no solution exists, and the dictionary in use is the caller's,
\* value for value.
C1_ValidationBeforeSolver ==
    call # NoCall =>
        /\ parameters = call.parameters
        /\ (solverCalls > 0 \/ sol # NoSol) => ParamValidation = "ok"
        /\ (ParamValidation # "ok" /\ ParamValidationDone) =>
              /\ pc = "raised"
              /\ ret.raised = ParamValidation
              /\ solverCalls = 0
              /\ sol = NoSol

C1_Witness ==
    /\ IsEngineCall
    /\ ValidateParameters(call.parameters) # "ok"
    /\ ValidateConfig(call.config) = "ok"
    /\ pc = "raised"
    /\ solverCalls = 0

EngineValidated ==
    /\ IsEngineCall
    /\ ValidateParameters(call.parameters) = "ok"
    /\ ValidateConfig(call.config) = "ok"

SeriesOf(r) ==
    {r.time, r.angle, r.angular_velocity, r.torque, r.power, r.kinetic_energy}

\* C2: SimulationEngine.run_simulation, once both validations have passed,
\* never raises, and a result with success = False has a non-empty message,
\* n_evaluations = 0 and six empty arrays.
C2_FailureIsAResult ==
    EngineValidated =>
        /\ pc # "raised"
        /\ (pc = "returned" /\ ~ret.result.success) =>
              /\ ret.result.message # ""
              /\ ret.result.n_evaluations = 0
              /\ \A a \in SeriesOf(ret.result) : a = <<>>

\* C3: a SimulationResult with success = True has a strictly increasing time
\* array that starts at t_start, ends at t_end and has n_points entries, and
\* the five other arrays have n_points entries too.  (Times are numerators
\* over n_points - 1.)
C3_SuccessfulTimeGrid ==
    (IsEngineCall /\ pc = "returned" /\ ret.result.success) =>
        LET r == ret.result
            n == call.config.n_points
        IN  /\ Len(r.time) = n
            /\ \A i \in 1..(n - 1) : r.time[i] < r.time[i + 1]
            /\ r.time[1] = call.config.t_start * (n - 1)
            /\ r.time[n] = call.config.t_end * (n - 1)
            /\ \A a \in SeriesOf(r) : Len(a) = n

C3_Witness ==
    /\ IsEngineCall
    /\ pc = "returned"
    /\ ret.result.success
    /\ call.config.t_start = 2
    /\ call.config.n_points = 10

\* C4: PerformanceAnalyzer.analyze on a failed result of the engine
\* (success = False, empty arrays) returns without raising.
C4_AnalyzeFailedReturns ==
    (IsEngineCall /\ analysis # NoAnalysis /\ ~ret.result.success) =>
        analysis.raised = "ok"

ConfigChecked ==
    /\ IsEngineCall
    /\ ValidateParameters(call.parameters) = "ok"
    /\ pc \notin {"idle", "validate_parameters", "validate_config"}

ConfigRejected ==
    pc = "raised" /\ ret.raised = "ValidationError" /\ solverCalls = 0

MustReject(c) ==
    \/ c.t_end <= c.t_start
    \/ c.n_points < 10
    \/ c.rtol <= 0
    \/ c.atol <= 0
    \/ (c.max_step # None /\ Le(c.max_step, 0))

\* C10 as stated: run_simulation rejects with a ValidationError, before
\* integrating, every configuration with t_end <= t_start, n_points < 10,
\* rtol <= 0, atol <= 0 or a max_step set and <= 0, and accepts every
\* configuration with t_end > t_start, n_points >= 10 and positive tolerances.
C10_ConfigValidation ==
    ConfigChecked =>
        LET c == call.config
        IN  /\ MustReject(c) => ConfigRejected
            /\ (c.t_end > c.t_start /\ c.n_points >= 10 /\ c.rtol > 0 /\ c.atol > 0)
                  => pc # "raised"

\* C10 amended: the rejections as stated, and every configuration with
\* t_end > t_start, n_points >= 10, positive tolerances and max_step unset or
\* positive is accepted.
C10_ConfigValidationAmended ==
    ConfigChecked =>
        LET c == call.config
        IN  /\ MustReject(c) => ConfigRejected
            /\ (/\ c.t_end > c.t_start /\ c.n_points >= 10
                /\ c.rtol > 0 /\ c.atol > 0
                /\ (c.max_step = None \/ Gt(c.max_step, 0)))
                  => pc # "raised"

C10_Witness ==
    /\ ConfigChecked
    /\ call.config.max_step = Float(0)
    /\ call.config.t_end > call.config.t_start
    /\ call.config.n_points = 10
    /\ ConfigRejected

-----------------------------------------------------------------------------
(* Claims about validation (SpecValidation).                                *)

Validated == pc = "done" /\ ret.api \in {"validate_parameters", "validate_params"}

\* The dictionaries claim C7 names: a required field missing or non-numeric,
\* R <= 0, L < 0, L > 2R, I_plate <= 0, m_c <= 0, tau_input <= 0, a negative
\* b, c_drag, rho_veg, k_grass or v_avance, or an n_blades entry that is not
\* an integer in 1..12.
C7Case(p) ==
    \/ \E f \in RequiredParams : ~Has(p, f) \/ ~IsNumber(p[f])
    \/ Le(p["R"], 0) \/ Lt(p["L"], 0)
    \/ (IsFinite(p["L"]) /\ IsFinite(p["R"]) /\ p["L"].v > 2 * p["R"].v)
    \/ Le(p["I_plate"], 0) \/ Le(p["m_c"], 0) \/ Le(p["tau_input"], 0)
    \/ \E f \in {"b", "c_drag", "rho_veg", "k_grass", "v_avance"} : Lt(p[f], 0)
    \/ /\ Has(p, "n_blades")
       /\ ~(IsInt(p["n_blades"]) /\ p["n_blades"].v \in 1..12)

\* C7: both validators raise an error for every dictionary with a required
\* field missing or non-numeric, R <= 0, L < 0, L > 2R, I_plate <= 0,
\* m_c <= 0, tau_input <= 0, a negative resistance or vegetation coefficient,
\* or an n_blades that is not an integer in 1..12.
C7_InvalidRejected ==
    (Validated /\ C7Case(parameters)) => ret.raised # "ok"

\* The blade is longer than twice the radius, nothing else is wrong, and the
\* validator of the engine has raised.
C7_Witness ==
    /\ Validated
    /\ ret.api = "validate_parameters"
    /\ parameters = [DefaultParams EXCEPT !["L"] = Float(121)]
    /\ ret.raised = "ValidationError"

\* Every field is a number inside the ranges of the data model and of
\* ParameterLimits, and there is no strategy.
InDocumentedRange(p) ==
    /\ \A f \in RequiredParams : IsFinite(p[f])
    /\ p["R"].v >= MIN_RADIUS /\ p["R"].v <= MAX_RADIUS
    /\ p["L"].v >= 0 /\ p["L"].v <= 2 * p["R"].v
    /\ p["I_plate"].v > 0 /\ p["I_plate"].v <= MAX_INERTIA
    /\ ~ExceedsProduct(p["I_plate"].v, 10, p["m_c"].v, p["R"].v)
    /\ p["m_c"].v >= MIN_MASS /\ p["m_c"].v <= MAX_MASS
    /\ p["tau_input"].v >= MIN_TORQUE /\ p["tau_input"].v <= MAX_TORQUE
    /\ p["b"].v >= 0 /\ p["b"].v <= MAX_FRICTION
    /\ p["c_drag"].v >= 0 /\ p["c_drag"].v <= MAX_DRAG
    /\ p["rho_veg"].v >= 0 /\ p["rho_veg"].v <= MAX_DENSITY
    /\ p["k_grass"].v >= 0 /\ p["k_grass"].v <= MAX_RESISTANCE
    /\ p["v_avance"].v >= 0 /\ p["v_avance"].v <= MAX_LINEAR_VELOCITY
    /\ Has(p, "n_blades") => (IsInt(p["n_blades"]) /\ p["n_blades"].v \in 1..12)
    /\ Has(p, "w") =>
          (IsFinite(p["w"]) /\ p["w"].v >= MIN_WIDTH /\ p["w"].v <= MAX_WIDTH)
    /\ ~HasStrategy(p)

\* A documented lower bound is taken: b, c_drag, rho_veg, k_grass or
\* v_avance is 0, or L is 0.
AtLowerBound(p) ==
    \E f \in {"b", "c_drag", "rho_veg", "k_grass", "v_avance", "L"} : p[f].v = 0

\* C8: a dictionary in which b, c_drag, rho_veg, k_grass or v_avance is 0, or
\* L is 0, with every other field inside its documented range, passes both
\* validators without error.
C8_LowerBoundsAccepted ==
    (Validated /\ InDocumentedRange(parameters) /\ AtLowerBound(parameters))
        => ret.raised = "ok"

\* The part of C8 that the validator of the engine meets.
C8_OrcLowerBoundsAccepted ==
    (/\ Validated
     /\ ret.api = "validate_parameters"
     /\ InDocumentedRange(parameters)
     /\ AtLowerBound(parameters))
        => ret.raised = "ok"

\* The times a validator samples, and the largest torque it lets pass.
SampledTimes(api) ==
    IF api = "validate_parameters" THEN OrcTestTimes ELSE LegacyTestTimes
TorqueBound(api) ==
    IF api = "validate_parameters" THEN MAX_TORQUE ELSE LegacyMaxStrategyTorque

\* A sampled value is finite, non-negative and within the bound.
SampleAdmissible(r, bound) == IsFinite(r) /\ r.v >= 0 /\ r.v <= bound

\* C9: a dictionary whose strategy returns a non-finite, negative or too
\* large value at one of the sampled times is rejected; a dictionary that
\* passes has a strategy whose sampled values are all finite, non-negative
\* and within the bound.
C9_StrategySamplesChecked ==
    (/\ Validated
     /\ HasStrategy(parameters)
     /\ parameters["tau_grass_func"].k = "func"
     /\ ret.raised = "ok")
        => \A s \in SampledTimes(ret.api) :
              SampleAdmissible(CallStrategy(parameters["tau_grass_func"], s),
                               TorqueBound(ret.api))

\* What the validators do guarantee about the samples of a dictionary that
\* passed: none raised, none is a non-number, none is negative or above the
\* bound (NaN is none of these).
C9_SamplesNotRejected ==
    (/\ Validated
     /\ HasStrategy(parameters)
     /\ ret.raised = "ok")
        => /\ parameters["tau_grass_func"].k = "func"
           /\ \A s \in SampledTimes(ret.api) :
                LET r == CallStrategy(parameters["tau_grass_func"], s)
                IN  IsNumber(r) /\ ~Lt(r, 0) /\ ~Gt(r, TorqueBound(ret.api))

-----------------------------------------------------------------------------
(* Claims about run_simulation (SpecLegacyRun).                             *)

RunFinished == pc \in {"returned", "raised"}

\* The basic inputs fail validate_simulation_params, or the dictionary that
\* run_simulation hands to the simulation fails validate_params.
InvalidRunInputs(a) ==
    \/ ValidateSimulationParams(a.mass, a.radius, a.omega, a.T_end, a.dt) # "ok"
    \/ /\ a.advanced_params # None
       /\ ValidateParams(RunParameters(a).params) # "ok"

\* C6: a call of run_simulation, directly or through the wrapper of
\* orc_bridge, whose basic inputs or parameter dictionary fail validation
\* ends with an exception and returns no result.
C6_InvalidRunRaises ==
    (RunFinished /\ InvalidRunInputs(call.args)) => pc = "raised"

\* The same for main_model.run_simulation alone.
C6_MainInvalidRunRaises ==
    (RunFinished /\ call.api = "main_model.run_simulation"
       /\ InvalidRunInputs(call.args))
        => (pc = "raised" /\ solverCalls = 0)

-----------------------------------------------------------------------------
(* Claims about the batch operations (SpecBatch).                           *)

IsBatchCall ==
    call # NoCall /\ call.api \in {"batch_simulate", "simulate_all", "compare_configurations"}

\* Every configuration of the list that runs successfully has its result in
\* the output of the batch operation.
SuccessfulRunsInOutput ==
    \A i \in 1..Len(call.list) :
        CASE call.api = "batch_simulate" ->
                LET name == call.list[i]
                IN  (name \in DOMAIN call.configurations
                       /\ ModelRunSimulation(call.configurations[name]).raised = "ok")
                    => /\ name \in DOMAIN ret.result
                       /\ ret.result[name]
                            = ModelRunSimulation(call.configurations[name]).result
          [] call.api = "simulate_all" ->
                LET config == call.list[i]
                IN  ConfigSimulate(config).raised = "ok"
                    => /\ config.name \in DOMAIN ret.result
                       /\ ret.result[config.name]
                            = [kind |-> "result", result |-> ConfigSimulate(config).result]
          [] OTHER ->
                LET config == call.list[i]
                    o == MainRunSimulation(config.args, config.fate)
                IN  o.raised = "ok" => ret.result.results[i] = o.result

\* C5: in batch_simulate, simulate_all and compare_configurations a
\* configuration whose run fails does not abort the batch: no exception
\* leaves the operation, it works through the whole list, and every
\* configuration that runs successfully has its result in the output.
C5_FailureDoesNotAbortBatch ==
    IsBatchCall =>
        /\ pc # "raised"
        /\ pc = "returned" => (index = Len(call.list) + 1 /\ SuccessfulRunsInOutput)

\* The same for batch_simulate and compare_configurations alone.
C5_OrcAndCompareIsolateFailures ==
    (IsBatchCall /\ call.api # "simulate_all") =>
        /\ pc # "raised"
        /\ pc = "returned" => (index = Len(call.list) + 1 /\ SuccessfulRunsInOutput)

\* simulate_all with distinct names and no configuration left invalid.
C5_SimulateAllOfValidatedConfigs ==
    (IsBatchCall /\ call.api = "simulate_all"
       /\ (\A i \in 1..Len(call.list) : call.list[i].validated)
       /\ (\A i, j \in 1..Len(call.list) :
              call.list[i].name = call.list[j].name => i = j))
        => /\ pc # "raised"
           /\ pc = "returned" => (index = Len(call.list) + 1 /\ SuccessfulRunsInOutput)

-----------------------------------------------------------------------------
(* Claims about the functions of the physics (SpecPhysics).                 *)

Returned(api) == pc = "done" /\ call.api = api /\ ret.raised = "ok"

ComponentKeys == {"input", "friction", "drag", "grass", "net"}

\* C11: calculate_torque_components returns the keys input, friction, drag,
\* grass and net with input = tau_input, friction = b * omega,
\* drag = c_drag * omega^2 * sign(omega) and
\* net = input - friction - drag - grass, and leaves the parameter dictionary
\* as it was.
C11_TorqueComponents ==
    Returned("calculate_torque_components") =>
        LET r == ret.result
            p == call.params
            w == call.omega
        IN  /\ DOMAIN r = ComponentKeys
            /\ r.input = Float(1000 * p["tau_input"].v)
            /\ r.friction = Float(100 * p["b"].v * w)
            /\ r.drag = Float(IF w > 0 THEN 100 * p["c_drag"].v * w * w
                              ELSE IF w < 0 THEN -(100 * p["c_drag"].v * w * w)
                              ELSE 0)
            /\ IsFinite(r.grass) =>
                  r.net = Float(r.input.v - r.friction.v - r.drag.v - r.grass.v)
            /\ parameters = p

C11_Witness ==
    /\ Returned("calculate_torque_components")
    /\ call.omega < 0
    /\ ~HasStrategy(parameters)
    /\ ret.result.grass.v > 0

InertiaFormula(p) ==
    p["I_plate"].v
      + (IF Has(p, "n_blades") THEN p["n_blades"].v ELSE 2)
          * p["m_c"].v * (p["R"].v + p["L"].v) * (p["R"].v + p["L"].v)

\* C12: calculate_total_moment_of_inertia returns
\* I_plate + n_blades * m_c * (R + L)^2 with n_blades = 2 when the key is
\* absent; for a valid parameter set the value is strictly positive; and
\* main_model.rotary_cutter_system divides by the same value.
C12_InertiaFormula ==
    /\ Returned("calculate_total_moment_of_inertia") =>
          /\ ret.result = Float(InertiaFormula(parameters))
          /\ ValidateParameters(parameters) = "ok" => ret.result.v > 0
    /\ (Returned("rotary_cutter_system") /\ ret.result[2].k = "ratio") =>
          ret.result[2].den = InertiaFormula(parameters)

C12_Witness ==
    /\ Returned("calculate_total_moment_of_inertia")
    /\ ~Has(parameters, "n_blades")
    /\ ValidateParameters(parameters) = "ok"

\* C13: differential_equation_system returns [omega, net_torque / I_total],
\* whatever theta is; with omega = 0 and no vegetation torque the second
\* component is tau_input / I_total and the first is 0.
C13_Derivative ==
    Returned("differential_equation_system") =>
        LET p == call.params
            net == CalculateTorqueComponents(call.t, call.omega, p).result.net
            grass == CalculateTorqueComponents(call.t, call.omega, p).result.grass
            I_total == InertiaFormula(p)
        IN  /\ ret.result[1] = call.omega
            /\ (IsFinite(net) /\ I_total # 0) =>
                  ret.result[2] = [k |-> "ratio", num |-> 10 * net.v, den |-> I_total]
            /\ \A theta \in Thetas :
                  DifferentialEquationSystem(call.t, <<theta, call.omega>>, p).result
                      = ret.result
            /\ (call.omega = 0 /\ grass = Float(0) /\ I_total # 0) =>
                  /\ ret.result[1] = 0
                  /\ ret.result[2] = [k |-> "ratio",
                                      num |-> 10000 * p["tau_input"].v,
                                      den |-> I_total]

C13_Witness ==
    /\ Returned("differential_equation_system")
    /\ call.omega = 0
    /\ call.theta = 1
    /\ CalculateTorqueComponents(call.t, 0, parameters).result.grass = Float(0)

ValidPhysicsCall ==
    Returned("calculate_torque_components") /\ ValidateParameters(call.params) = "ok"

Antisymmetric ==
    LET r == ret.result
        m == CalculateTorqueComponents(call.t, -call.omega, call.params).result
    IN  /\ m.friction.v = -r.friction.v
        /\ m.drag.v = -r.drag.v
        /\ call.omega = 0 => (r.friction.v = 0 /\ r.drag.v = 0)

\* C14 as stated: friction and drag are antisymmetric in omega, both are
\* negative for omega < 0, positive for omega > 0 and zero at omega = 0.
C14_SignSymmetry ==
    ValidPhysicsCall =>
        /\ Antisymmetric
        /\ call.omega < 0 => (ret.result.friction.v < 0 /\ ret.result.drag.v < 0)
        /\ call.omega > 0 => (ret.result.friction.v > 0 /\ ret.result.drag.v > 0)

\* C14 amended: friction and drag are antisymmetric in omega and zero at
\* omega = 0; friction is negative for omega < 0 and positive for omega > 0
\* when b > 0 and is zero when b = 0, and so is drag with c_drag.
C14_SignSymmetryAmended ==
    ValidPhysicsCall =>
        LET r == ret.result
            b == call.params["b"].v
            c_drag == call.params["c_drag"].v
        IN  /\ Antisymmetric
            /\ (b > 0 /\ call.omega < 0) => r.friction.v < 0
            /\ (b > 0 /\ call.omega > 0) => r.friction.v > 0
            /\ b = 0 => r.friction.v = 0
            /\ (c_drag > 0 /\ call.omega < 0) => r.drag.v < 0
            /\ (c_drag > 0 /\ call.omega > 0) => r.drag.v > 0
            /\ c_drag = 0 => r.drag.v = 0

C14_Witness ==
    /\ ValidPhysicsCall
    /\ call.omega < 0
    /\ call.params["b"].v = 0
    /\ ret.result.drag.v < 0

\* C15: with a tau_grass_func that is not None calculate_torque_components
\* calls it exactly once, with the time t, and the grass torque is what it
\* returned; with the key absent or None the grass torque is
\* k_grass * rho_veg * v_avance * R and no strategy is called.
C15_VegetationStrategy ==
    Returned("calculate_torque_components") =>
        LET p == call.params
            value == p["tau_grass_func"].at[call.t]
        IN  IF Has(p, "tau_grass_func") /\ p["tau_grass_func"] # None
            THEN /\ strategyCalls = <<call.t>>
                 /\ ret.result.grass
                      = (IF IsFinite(value) THEN Float(1000 * value.v) ELSE value)
            ELSE /\ strategyCalls = <<>>
                 /\ ret.result.grass
                      = Float(p["k_grass"].v * p["rho_veg"].v
                                * p["v_avance"].v * p["R"].v)

C15_Witness ==
    /\ Returned("calculate_torque_components")
    /\ call.t = "t5"
    /\ strategyCalls = <<"t5">>
    /\ ret.result.grass = Float(250000)

-----------------------------------------------------------------------------
(* Claims about the metrics (SpecMetrics).                                  *)

NotANumber(x) == x.k \in {"nan", "inf", "ninf"}

\* C16: the energy metrics satisfy E_total - E_util = E_losses in
\* main_model.compute_metrics and energy_total - energy_useful =
\* energy_losses in PerformanceAnalyzer._calculate_energy_metrics (for
\* energies that are numbers).
C16_EnergyBookkeeping ==
    /\ Returned("main_model.compute_metrics") =>
          LET r == ret.result
          IN  /\ IsFinite(r.E_util) =>
                    (IsFinite(r.E_losses) /\ r.E_total.v - r.E_util.v = r.E_losses.v)
              /\ ~IsFinite(r.E_util) => r.E_losses = NaN
    /\ Returned("_calculate_energy_metrics") =>
          LET r == ret.result
          IN  r.energy_useful.k = "ratio" =>
                  /\ r.energy_losses.k = "ratio"
                  /\ r.energy_losses.den = r.energy_useful.den
                  /\ r.energy_losses.num
                       = r.energy_total.v * r.energy_useful.den - r.energy_useful.num

C16_Witness ==
    /\ Returned("main_model.compute_metrics")
    /\ ret.result.E_util.k = "float"
    /\ ret.result.E_util.v > 0
    /\ ret.result.E_losses.v > 0

\* The value is num / den, or num / (den + 1e-10).
IsQuotient(x, num, den) ==
    /\ x.k = "ratio"
    /\ \/ x.num * den = num * x.den
       \/ x.num * (den + 1) = num * x.den

IsZero(x) == IF x.k = "ratio" THEN x.num = 0 ELSE x.k \in {"int", "float"} /\ x.v = 0

\* eta of the two compute_metrics for strategies that return numbers.
C17_ComputeMetricsEta ==
    (/\ \/ Returned("main_model.compute_metrics")
        \/ Returned("orc_bridge.compute_metrics")
     /\ IsFinite(ret.result.E_util)) =>
        LET r == ret.result
        IN  IF r.E_total.v > 0
            THEN r.eta = [k |-> "ratio", num |-> r.E_util.v, den |-> r.E_total.v]
            ELSE r.eta = Int_(0)

\* C17: the overall efficiency is useful / total when the total energy is
\* above 0 and exactly 0 otherwise, no division by zero happens and no NaN
\* or Inf is returned, in main_model.compute_metrics,
\* orc_bridge.compute_metrics, _calculate_energy_metrics and
\* calculate_efficiency.
C17_EfficiencyFloor ==
    /\ C17_ComputeMetricsEta
    /\ (pc = "done" /\ call.api = "calculate_efficiency") =>
          /\ ret.raised = "ok"
          /\ ~NotANumber(ret.result)
          /\ IF call.energy_total > 0
             THEN IsQuotient(ret.result, call.energy_useful, call.energy_total)
             ELSE IsZero(ret.result)
    /\ Returned("_calculate_energy_metrics") =>
          LET r == ret.result
          IN  /\ ~NotANumber(r.efficiency)
              /\ r.energy_total.v <= 0 => IsZero(r.efficiency)

\* C18: each sample of efficiency_instantaneous of compute_metrics is in
\* [0, 100] and is 0 where the total power is not above 1e-6 W or the useful
\* power is negative or not finite; efficiency_average, efficiency_peak and
\* efficiency_min are in [0, 100].
C18_InstantaneousEfficiency ==
    Returned("main_model.compute_metrics") =>
        LET r == ret.result
            percent == 0..10000
        IN  /\ \A i \in DOMAIN r.efficiency_instantaneous :
                  /\ r.efficiency_instantaneous[i] \in percent
                  /\ (\/ r.power_total_series[i] <= PowerThreshold
                      \/ ~IsFinite(r.power_util_series[i])
                      \/ r.power_util_series[i].v < 0)
                        => r.efficiency_instantaneous[i] = 0
            /\ r.efficiency_average \in percent
            /\ r.efficiency_peak \in percent
            /\ r.efficiency_min \in percent

C18_Witness ==
    /\ Returned("main_model.compute_metrics")
    /\ \E i, j \in DOMAIN ret.result.efficiency_instantaneous :
          /\ ret.result.power_total_series[i] = PowerThreshold
          /\ ret.result.power_util_series[i].v > 0
          /\ ret.result.efficiency_instantaneous[i] = 0
          /\ ret.result.efficiency_instantaneous[j] > 0

InUnitInterval(x) ==
    \/ x = Int_(0)
    \/ x.k = "index" /\ x.var >= 0 /\ x.var <= x.mean * x.mean

\* 1 - std / (mean(|signal|) + 1e-10) clamped to [0, 1].
ClampedIndex(signal) ==
    LET x == StabilityIndex(signal)
    IN  IF x.var > x.mean * x.mean THEN Int_(0) ELSE x

AllZero(signal) == \A i \in DOMAIN signal : signal[i] = 0

\* C19: for non-empty signals the three indices of
\* _calculate_stability_metrics and the stability_index of
\* calculate_stability_metrics are 1 - std / (mean(|signal|) + 1e-10)
\* clamped to [0, 1], so they lie in [0, 1]; for an all-zero signal the
\* index is 1 (no deviation).
C19_StabilityClamped ==
    /\ Returned("_calculate_stability_metrics") =>
          LET r == ret.result
          IN  /\ r.omega = ClampedIndex(sol.y)
              /\ r.torque = ClampedIndex(call.torque)
              /\ r.power = ClampedIndex(call.power)
              /\ \A f \in DOMAIN r : InUnitInterval(r[f])
              /\ AllZero(call.torque) => (r.torque.k = "index" /\ r.torque.var = 0)
    /\ Returned("calculate_stability_metrics") =>
          /\ ret.result.stability_index = ClampedIndex(sol.y)
          /\ InUnitInterval(ret.result.stability_index)
          /\ AllZero(sol.y) => (ret.result.stability_index.k = "index"
                                  /\ ret.result.stability_index.var = 0)

C19_Witness ==
    /\ Returned("_calculate_stability_metrics")
    /\ ret.result.omega = Int_(0)
    /\ AllZero(call.torque)
    /\ ret.result.torque.var = 0

\* C20: omega_stability, torque_stability and power_stability of the legacy
\* analyze_performance (main_model, and the conversion path of orc_bridge)
\* lie in [0, 1].
C20_LegacyStabilityBounds ==
    (\/ Returned("main_model.analyze_performance")
     \/ Returned("orc_bridge.analyze_performance")) =>
        \A f \in DOMAIN ret.result : InUnitInterval(ret.result[f])

\* C21: for a valid parameter set the efficiency (and cutting_efficiency,
\* which is the same value) that PerformanceAnalyzer.analyze takes from
\* _calculate_energy_metrics is a ratio in [0, 1].
C21_EfficiencyIsRatio ==
    (/\ Returned("_calculate_energy_metrics")
     /\ ValidateParameters(call.params) = "ok"
     /\ ret.result.efficiency.k = "ratio") =>
        /\ ret.result.efficiency.den > 0
        /\ 0 <= ret.result.efficiency.num
        /\ ret.result.efficiency.num <= ret.result.efficiency.den

BandOf(x) ==
    {b \in {"high", "medium", "low"} :
        \/ b = "high" /\ x > 8000
        \/ b = "medium" /\ x >= 6000 /\ x <= 8000
        \/ b = "low" /\ x < 6000}

-----------------------------------------------------------------------------
(* Claims about the frequency analysis (SpecFrequency).                     *)

\* The bins of the positive frequencies of n samples.
PositiveBins(n) == {k \in 1..(n - 1) : 2 * k < n}

\* The bin is the first largest one of the bins.
Dominant(bin, bins) ==
    /\ bin \in bins
    /\ \A k \in bins : sol.magnitudes[k + 1] <= sol.magnitudes[bin + 1]

\* C23 as stated: the frequency analysis runs exactly when the series has at
\* least 10 samples; with fewer the dominant frequency is 0.0, otherwise it
\* is the positive, non-DC bin with the largest magnitude (never bin 0), in
\* _calculate_frequency_metrics and in main_model.analyze_performance.
C23_FrequencyAnalysis ==
    (\/ Returned("_calculate_frequency_metrics")
     \/ Returned("main_model.analyze_performance")) =>
        IF sol.n < 10
        THEN ret.result.dominant_frequency = 0
        ELSE Dominant(ret.result.dominant_frequency, PositiveBins(sol.n))

\* What _calculate_frequency_metrics does: it runs exactly from 10 samples
\* on, and its dominant bin is the largest of bins 1 .. n // 2 - 1, which
\* are all the positive bins when n is even.
C23_AnalyzerSearchedBins ==
    Returned("_calculate_frequency_metrics") =>
        IF sol.n < 10
        THEN ret.result.dominant_frequency = 0 /\ ret.result.spectrum.frequencies = {}
        ELSE /\ Dominant(ret.result.dominant_frequency, 1..((sol.n \div 2) - 1))
             /\ ret.result.dominant_frequency # 0
             /\ sol.n % 2 = 0 =>
                   Dominant(ret.result.dominant_frequency, PositiveBins(sol.n))


-----------------------------------------------------------------------------
(* Claims about one RotaryCutterModel and its engine (SpecModel).           *)

\* The series of a SimulationResult.
Series(r) ==
    <<r.time, r.angle, r.angular_velocity, r.torque, r.power, r.kinetic_energy>>

\* The calls of the log that reached the engine and returned from it.
EngineReturns ==
    {i \in DOMAIN results : results[i].outcome.raised = "ok"}

ModelReturns ==
    {i \in EngineReturns : results[i].api = "model.run_simulation"}

Stored(entry) ==
    /\ entry.api = "model.run_simulation"
    /\ entry.outcome.raised = "ok"
    /\ entry.store_history

\* The results of the returned calls made with store_history=True, in call
\* order.
StoredResults ==
    LET stored == SelectSeq(results, Stored)
    IN  [i \in 1..Len(stored) |-> stored[i].outcome.result]

\* last_result and simulation_history are what the calls of the log left.
ModelFollowsLog ==
    /\ analysis.last_result =
          IF ModelReturns = {} THEN None
          ELSE results[CHOOSE i \in ModelReturns : \A j \in ModelReturns : j <= i].outcome.result
    /\ analysis.simulation_history = StoredResults

SummaryReturned == ret.api = "get_simulation_summary"

\* The summary reports successful + failed = total_simulations = len(history).
SummaryAddsUp(summary, history) ==
    /\ {"total_simulations", "successful", "failed"} \subseteq DOMAIN summary
    /\ summary.successful + summary.failed = summary.total_simulations
    /\ summary.total_simulations = Len(history)

\* C30 as stated: last_result is the result of the most recent returned run,
\* simulation_history holds in call order the results of the returned runs
\* made with store_history=True, a run that raised changes neither, and
\* get_simulation_summary reports successful + failed = total_simulations =
\* length of simulation_history.
C30_HistoryAndSummary ==
    /\ ModelFollowsLog
    /\ SummaryReturned => SummaryAddsUp(ret.result, analysis.simulation_history)

\* C30, amended: the same for last_result and simulation_history; the summary
\* of a non-empty history reports successful + failed = total_simulations =
\* its length, the summary of an empty history is {'total_simulations': 0}.
C30_HistoryAndSummaryAmended ==
    /\ ModelFollowsLog
    /\ SummaryReturned =>
          IF analysis.simulation_history = <<>>
          THEN ret.result = [total_simulations |-> 0]
          ELSE SummaryAddsUp(ret.result, analysis.simulation_history)

\* A summary of a history of one failed run, taken after a later run that
\* was not stored.
C30_Witness ==
    /\ SummaryReturned
    /\ ret.result.total_simulations = 1
    /\ ret.result.failed = 1
    /\ analysis.last_result # analysis.simulation_history[1]


CompareReturned == ret.api = "compare_configurations"

\* The run of the current configuration inside compare_configurations
\* returned a successful result, which analyze accepts.
CurrentSucceeded ==
    /\ results[Len(results)].outcome.raised = "ok"
    /\ results[Len(results)].outcome.result.success

\* The other configurations whose simulation and analysis succeed.
OthersAnalysed(other_configs) ==
    {i \in DOMAIN other_configs :
        /\ ModelRunSimulation(other_configs[i]).raised = "ok"
        /\ Analyze(ModelRunSimulation(other_configs[i]).result).raised = "ok"}

\* C28: compare_configurations of a model whose own configuration simulates
\* returns, without raising, one row for the current configuration and one
\* for each other configuration whose simulation and analysis succeeded.
C28_CompareReturnsRows ==
    (CompareReturned /\ CurrentSucceeded) =>
        /\ ret.raised = "ok"
        /\ Len(ret.result) = 1 + Cardinality(OthersAnalysed(call.other_configs))


-----------------------------------------------------------------------------
(* Claims about the caller's parameter dictionary (SpecFrame).              *)

\* C25: SimulationEngine.run_simulation, main_model.run_simulation and
\* PerformanceAnalyzer.analyze leave the caller's dictionary as it was when
\* they were called, and the parameters of a SimulationResult stay what the
\* dictionary was at the call when the caller changes it later.
C25_CallerDictUntouched ==
    /\ pc \in {"returned", "analysed"} => parameters = call.params
    /\ (pc # "ready" /\ call.api = "engine.run_simulation" /\ ret.raised = "ok") =>
          Deref(ret.result.parameters) = call.params

\* The caller has changed its dictionary after an analysed run of the engine.
C25_Witness ==
    /\ pc = "changed"
    /\ call.api = "engine.run_simulation"
    /\ ret.raised = "ok"
    /\ analysis.status = "called"
    /\ parameters # call.params
    /\ ret.result.parameters.value = call.params


-----------------------------------------------------------------------------
(* Claims about the default parameters (SpecDefaults).                      *)

\* mass in (0, 1000] kg, radius in (0, 5] m and tau_input in (0, 10000] N*m.
DefaultsInRange ==
    /\ call.mass > 0 /\ call.mass <= LegacyMaxMass
    /\ call.radius > 0 /\ call.radius <= LegacyMaxRadius
    /\ call.tau_input > 0 /\ call.tau_input <= LegacyMaxTorque

DefaultsCalled ==
    /\ pc \in {"done", "validated"}
    /\ call.api \in {"main_model.create_default_params",
                     "orc_bridge.create_default_params"}

\* C27: for a mass, a radius and an input torque in these ranges
\* create_default_params returns a dictionary that holds tau_input and every
\* required parameter, and validate_params accepts it.
C27_DefaultsAreValid ==
    (DefaultsCalled /\ DefaultsInRange) =>
        /\ ret.raised = "ok"
        /\ \A f \in RequiredParams : Has(ret.result, f)
        /\ ret.result["tau_input"] = Float(call.tau_input)
        /\ pc = "validated" => analysis.status = "ok"

\* The bridge's dictionary for the largest mass, radius and torque has been
\* validated.
C27_Witness ==
    /\ pc = "validated"
    /\ call.api = "orc_bridge.create_default_params"
    /\ call.mass = LegacyMaxMass
    /\ call.radius = LegacyMaxRadius
    /\ call.tau_input = LegacyMaxTorque
    /\ analysis.status = "ok"


-----------------------------------------------------------------------------
(* Claims about main_model.RotaryCutterConfig (SpecConfig).                 *)

Accepted(p) == ValidateParams(p) = "ok"

MethodReturned(api) == index > 0 /\ call.api = api

\* The parameters after update_params(**kwargs) has stored its arguments.
StoredAfter(before, kwargs) ==
    [f \in Fields |->
        IF f \in DOMAIN kwargs /\ Has(before, f) THEN kwargs[f] ELSE before[f]]

\* C29: after any sequence of reset_to_defaults, update_params,
\* set_torque_function and validate calls, raising ones included, get_params
\* and simulate hand out parameters that validate_params accepts or raise;
\* an update_params that failed leaves the rejected values stored with
\* _validated = False, and _validated is True again only when the stored
\* parameters are valid.
C29_OnlyValidatedParamsLeave ==
    /\ analysis.validated <=> Accepted(analysis.params)
    /\ MethodReturned("get_params") =>
          IF Accepted(call.before.params)
          THEN ret.raised = "ok" /\ ret.result = call.before.params
          ELSE ret.raised = "ValueError"
    /\ MethodReturned("simulate") =>
          IF Accepted(call.before.params)
          THEN call.handed = call.before.params
          ELSE call.handed = None /\ ret.raised = "ValueError"
    /\ (MethodReturned("update_params") /\ ret.raised # "ok") =>
          /\ ~analysis.validated
          /\ analysis.params = StoredAfter(call.before.params, call.kwargs)
          /\ ~Accepted(analysis.params)

\* get_params raises after an update that failed and a set_torque_function
\* that could not make the parameters valid.
C29_Witness ==
    /\ MethodReturned("get_params")
    /\ ret.raised = "ValueError"
    /\ ~analysis.validated
    /\ analysis.params["b"] = Float(-1)
    /\ analysis.params["tau_grass_func"] = ConstantStrategy


-----------------------------------------------------------------------------
(* Claims about a stalled trajectory (SpecStall).                           *)

\* The run starts from rest and the constant vegetation torque
\* k_grass*rho_veg*v_avance*R is strictly greater than tau_input.
StallCase ==
    /\ call.omega = 0
    /\ parameters["k_grass"].v * parameters["rho_veg"].v
         * parameters["v_avance"].v * parameters["R"].v
       > 1000 * parameters["tau_input"].v

\* C26: from rest, with a constant vegetation torque above the input torque,
\* the angular velocity is negative after the first step and at every later
\* sample of the trajectory.
C26_StallStaysNegative ==
    /\ [](StallCase /\ index >= 1 => sol.omega < 0)
    /\ (StallCase /\ index = 0) ~> (index = 1 /\ sol.omega < 0)

\* The last sample of scenario B.
C26_Witness ==
    /\ StallCase
    /\ parameters = ScenarioB
    /\ index = MaxSteps
    /\ sol.omega < 0

====
